---- MODULE Spec2Model ----
(***************************************************************************)
(* A model of the scan-governance pipeline of the tech radar ETL:          *)
(*   - CircuitBreaker      (src/data-etl/src/rate_limiter.py)              *)
(*   - RateLimiter         (src/data-etl/src/rate_limiter.py)              *)
(*   - ProgressTracker     (src/data-etl/src/progress.py)                  *)
(*   - GitHubScanner, main (src/data-etl/src/scanner.py, main.py)          *)
(* and of the classification of the technologies found:                    *)
(*   - TemporalAnalyzer    (src/data-etl/src/temporal_analyzer.py)         *)
(*   - EnhancedTechnologyClassifier                                        *)
(*                         (src/data-etl/src/classifier_enhanced.py)       *)
(*   - AITechnologyFilter  (src/data-etl/src/ai_filter.py)                 *)
(* Time is the wall clock of time.time(), in whole seconds. Scores and     *)
(* confidences, floats in the code, are integers in thousandths.           *)
(***************************************************************************)
EXTENDS Integers, Sequences, FiniteSets, TLC

\* ---------------------------------------------------------------- bounds

\* The clock stops advancing here (caps the counters that grow with time).
MaxTime == 125

\* RateLimiter(max_per_minute=...): the configured per-minute ceiling
\* (config rate_limit.max_per_minute, 25 when not configured).
max_per_minute == 2

\* checkpoint.save_interval of the configuration (10 when not configured):
\* mark_scanned() writes the file when the number of marked repositories is
\* a multiple of it.
save_interval == 2

\* The largest number of repositories that use the technology classified.
MaxCount == 6

\* ------------------------------------------------------ program constants

\* CircuitBreaker(failure_threshold=5, timeout=60)
failure_threshold == 5
timeout == 60

\* last_failure_time = None
NoTime == 0 - 1

\* RateLimiter(safety_threshold=100), self.cache_ttl = 10, and the length of
\* the sliding window of _enforce_per_minute_limit
safety_threshold == 100
cache_ttl == 10
window == 60

\* Amounts by which the clock advances between two steps of the program.
TimeSteps == {1, 59}
GovTimeSteps == {10, 20}

\* The repositories of the configured organization, in the order in which
\* org.get_repos() lists them.
Population == <<"r1", "r2", "r3", "r4", "r5", "r6", "r7">>

\* The sets of repositories that _should_skip_repo excludes (archived, fork,
\* private, too few stars, excluded name), one per configuration considered.
FilterChoices == {{}, {"r2"}}

\* The filter of the runs that are followed by a second run: it leaves
\* three repositories to scan, two of the first organization and one of the
\* second.
ResumeFilterChoices == {{"r4", "r5", "r6", "r7"}}

\* config['github']['organizations'] names two organizations: the listing
\* of the second begins at this position of Population.
SecondOrgAt == 3

\* main.py: no flag, --resume, --fresh
Modes == {"default", "resume", "fresh"}

Range(q) == {q[i] : i \in 1..Len(q)}

VARIABLES
    now,                \* time.time()
    \* CircuitBreaker fields
    state,              \* 'CLOSED' | 'OPEN' | 'HALF_OPEN'
    failure_count,
    last_failure_time,
    \* the caller of CircuitBreaker.call
    cb_pc,              \* "idle" | "in_call": func(*args) is running
    cb_event,           \* what the last breaker step did
    invoked,            \* times func was invoked by the current/last call()
    entered_as,         \* history: the state in which that call invoked func
    consec,             \* history: guarded calls that raised since the last
                        \* one that returned (or since reset())
    reopened_at,        \* history: time a HALF_OPEN trial raised, else NoTime
    \* RateLimiter fields
    request_times,      \* sequence of recorded request times
    rate_limit_cache,   \* << >> (None) or <<[remaining, reset]>>
    rate_limit_cache_time,
    \* the caller of RateLimiter.check_and_wait
    gov_result,         \* "none" | "admitted" | "raised" | "interrupted": how
                        \* the last call ended ("waiting": it sleeps; "pending":
                        \* _scan_repository has not called it yet)
    gov_pc,             \* where check_and_wait is: "idle" (not in it) |
                        \* "quota_sleep" (time.sleep, line 63) |
                        \* "minute_sleep" (time.sleep, line 83) | "exited"
    gov_wake,           \* the time at which the sleep ends, else NoTime
    gov_read,           \* `now` of _enforce_per_minute_limit (line 72)
    quota_query,        \* "none" | "ok" | "failed" | "cached": its quota query
    admitted,           \* history: the times at which the last
                        \* max_per_minute + 1 admitted calls returned
    \* the checkpoint file: << >> (no file) or <<scanned_repos>>
    file,
    \* the process running main()
    pc,                 \* "off" | "scanning" | "recording" (the guarded
                        \* scan returned, the record is being built) |
                        \* "marking" (mark_scanned is next) | "classifying"
                        \* (update_stats saved; main.py:184-273) | "done"
                        \* (returned 0) | "empty" (returned 1) | "exited"
                        \* (returned 130) | "dead" (killed)
    mode,               \* the flag main() was started with
    enabled,            \* ProgressTracker.enabled
    scanned_repos,      \* ProgressTracker.data['scanned_repos']
    idx,                \* position of the loop of scan_organization
    repo_details,       \* full_name of the records collected by this run
    stats,              \* GitHubScanner.stats
    excluded,           \* the repositories for which _should_skip_repo holds
    \* history
    rerun,              \* this is the run that follows an earlier run
    prev_end,           \* how the earlier run ended
    prev_enabled,       \* whether the earlier run had checkpointing enabled
    loaded,             \* identifiers loaded from the file at start
    completed,          \* repositories whose guarded scan ever returned
    completed_before,   \* ... before this run started, other than the
                        \* one in flight when the earlier run was cut short
    attempted,          \* repositories whose guarded scan this run invoked
    inflight,           \* repository in flight when the run was cut short
    written,            \* how the last _save() of the run ended: "none"
                        \* (no write yet) | "ok" | "unopened" | "cut"
    skipped_known,      \* repositories this run skipped at scanner.py:164
    listed,             \* scan_organization has not raised
    observed,           \* the repositories whose observation is in
                        \* all_repo_techs (of either function)
    \* _classify_single_enhanced, for the technology being classified
    cls_pc,             \* "idle" | "skipped" | "analyzed" | "ring" | "asked"
                        \* | "decided" | "dropped" | "curating" | "curated"
    classification,     \* config['classification'], read by every run
    tech_name,
    count,              \* tech_counts[tech_name]
    total,              \* total_repos = stats['repos_scanned']
    usage_score,
    temporal_data,      \* the analysis of TemporalAnalyzer
    ring,               \* the pair returned by _smart_ring_decision
    asks,               \* calls of chat.completions.create for the question
    reply,              \* what the Oracle answered to the last of them
    ai_result,          \* what _get_ai_classification returned
    decision,           \* the ClassificationDecision, << >> when there is none
    \* AITechnologyFilter._detect_all_duplicates, for one group of names
    dup_asks,           \* calls of chat.completions.create for the group
    dup_reply,          \* what the Oracle answered to the last of them
    dup_result,         \* "none" | "merged" | "kept" | "skipped"
    \* TemporalAnalyzer.analyze_technology on the counts of one technology
    ta_pc,              \* "counted" | "trend" | "scored"
    ta_counts,          \* recent, new, legacy, active, total
    ta_trend,           \* what _determine_trend returned
    ta_recency,         \* what _calculate_recency_score returned
    \* AITechnologyFilter: filter_technologies and apply_filter_decisions
    cur_pc,             \* "classified" | "evaluated" | "duplicates" |
                        \* "filtered" | "applied" | "crashed"
    technologies,       \* the list given to the filter: name, repos_count,
                        \* usage_percentage (in tenths of a percent)
    strategic_decisions,
    merge_groups,
    consolidations,
    final_technologies, \* what apply_filter_decisions returned
    oracle,             \* the questions asked so far, with the answers
    run,                \* history: 1, or 2 when the engine runs on its result
    given,              \* history: the list as it was given to this run
    merges_before,      \* history: merge groups of the runs before this one
    \* GitHubScanner.scan_organizations: what the scan collects
    ix_pc,              \* "scanning" | "returned"
    all_repo_techs,     \* scan_organizations: the observations collected
    all_repo_details,   \* scan_organizations: the records collected
    org_techs,          \* scan_organization: all_repo_techs of this one
    org_repos,          \* scan_organization: repo_details of this one
    tech_counts,        \* what aggregate_technologies returned
    ix_seen             \* repositories met so far

cbVars == <<state, failure_count, last_failure_time, cb_pc, cb_event, invoked,
            entered_as, consec, reopened_at>>

govVars == <<request_times, rate_limit_cache, rate_limit_cache_time,
             gov_result, quota_query, admitted, gov_pc, gov_wake, gov_read>>

scanVars == <<file, pc, mode, enabled, scanned_repos, idx, repo_details, stats,
              excluded, rerun, prev_end, prev_enabled, loaded, completed,
              completed_before, attempted, inflight, written,
              skipped_known, listed, observed>>

clsVars == <<cls_pc, classification, tech_name, count, total, usage_score,
             temporal_data, ring, asks, reply, ai_result, decision, dup_asks,
             dup_reply, dup_result>>

taVars == <<ta_pc, ta_counts, ta_trend, ta_recency>>

curVars == <<cur_pc, technologies, strategic_decisions, merge_groups,
             consolidations, final_technologies, oracle, run, given,
             merges_before>>

\* the variables of the stages that follow the classification
ixVars == <<ix_pc, all_repo_techs, all_repo_details, org_techs, org_repos,
           tech_counts, ix_seen>>

extVars == <<taVars, curVars, ixVars>>

\* the variables of the stages that follow the scan
anaVars == <<clsVars, extVars>>

vars == <<now, cbVars, govVars, scanVars, clsVars, extVars>>

\* ------------------------------------------------------- CircuitBreaker

\* rate_limiter.py:135  time.time() - self.last_failure_time >= self.timeout
CooldownElapsedNoTimeout(t, lft) == t - lft >= 0
CooldownElapsed(t, lft) == t - lft >= timeout

\* rate_limiter.py:133-142: call() raises "Circuit breaker is OPEN"
Rejects(s, t, lft) == s = "OPEN" /\ ~CooldownElapsed(t, lft)

\* rate_limiter.py:133-137: the state in which func is invoked
StateOnEntry(s, t, lft) ==
    IF s = "OPEN" /\ CooldownElapsed(t, lft) THEN "HALF_OPEN" ELSE s

\* rate_limiter.py:148-150
StateOnSuccessKeep(s) == s
StateOnSuccess(s) == IF s = "HALF_OPEN" THEN "CLOSED" ELSE s

\* rate_limiter.py:151  self.failure_count = 0
CountOnSuccessKeep(c) == c
CountOnSuccess(c) == 0

\* rate_limiter.py:156  self.failure_count += 1
CountOnFailureRestart(s, c) == IF s = "HALF_OPEN" THEN 1 ELSE c + 1
CountOnFailure(s, c) == c + 1

\* rate_limiter.py:159-163 (c is the incremented counter)
StateOnFailureLate(s, c) == IF c > failure_threshold THEN "OPEN" ELSE s
StateOnFailure(s, c) == IF c >= failure_threshold THEN "OPEN" ELSE s

\* CircuitBreaker.__init__
BreakerInit ==
    /\ state = "CLOSED"
    /\ failure_count = 0
    /\ last_failure_time = NoTime

\* call(): the breaker is OPEN and the cooldown has not elapsed: raise
\* without invoking func.
CallReject ==
    /\ cb_pc = "idle"
    /\ Rejects(state, now, last_failure_time)
    /\ cb_event' = "reject"
    /\ invoked' = 0
    /\ entered_as' = "none"
    /\ UNCHANGED <<now, state, failure_count, last_failure_time, cb_pc,
                   consec, reopened_at>>

\* call(): func is invoked (after OPEN -> HALF_OPEN when the cooldown is over).
CallEnter ==
    /\ cb_pc = "idle"
    /\ ~Rejects(state, now, last_failure_time)
    /\ state' = StateOnEntry(state, now, last_failure_time)
    /\ cb_pc' = "in_call"
    /\ cb_event' = "enter"
    /\ invoked' = 1
    /\ entered_as' = state'
    /\ UNCHANGED <<now, failure_count, last_failure_time, consec, reopened_at>>

\* call(): func returned.
CallReturn ==
    /\ cb_pc = "in_call"
    /\ state' = StateOnSuccess(state)
    /\ failure_count' = CountOnSuccess(failure_count)
    /\ cb_pc' = "idle"
    /\ cb_event' = "return"
    /\ consec' = 0
    /\ reopened_at' = NoTime
    /\ UNCHANGED <<now, last_failure_time, invoked, entered_as>>

\* call(): func raised an Exception, which is re-raised.
CallRaise ==
    /\ cb_pc = "in_call"
    /\ failure_count' = CountOnFailure(state, failure_count)
    /\ last_failure_time' = now
    /\ state' = StateOnFailure(state, failure_count')
    /\ cb_pc' = "idle"
    /\ cb_event' = "raise"
    /\ consec' = consec + 1
    /\ reopened_at' = IF state = "HALF_OPEN" THEN now ELSE NoTime
    /\ UNCHANGED <<now, invoked, entered_as>>

\* reset()
Reset ==
    /\ cb_pc = "idle"
    /\ failure_count' = 0
    /\ state' = "CLOSED"
    /\ last_failure_time' = NoTime
    /\ cb_event' = "reset"
    /\ consec' = 0
    /\ reopened_at' = NoTime
    /\ UNCHANGED <<now, cb_pc, invoked, entered_as>>

\* The clock advances (also while func is running).
BreakerTick ==
    \E d \in TimeSteps :
        /\ now + d <= MaxTime
        /\ now' = now + d
        /\ cb_event' = "tick"
        /\ UNCHANGED <<state, failure_count, last_failure_time, cb_pc,
                       invoked, entered_as, consec, reopened_at>>

\* ----------------------------------------------------------- RateLimiter

\* RateLimiter.__init__
GovernorInit ==
    /\ request_times = << >>
    /\ rate_limit_cache = << >>
    /\ rate_limit_cache_time = 0
    /\ gov_result = "none"
    /\ quota_query = "none"
    /\ admitted = << >>
    /\ gov_pc = "idle"
    /\ gov_wake = NoTime
    /\ gov_read = NoTime

\* What github.get_rate_limit() can do when it is called at time t: raise,
\* or report a remaining quota and a reset time.
QueryOutcomes(t) ==
    {[ok |-> FALSE, remaining |-> 0, reset |-> 0]}
    \cup {[ok |-> TRUE, remaining |-> r, reset |-> t + d] :
            r \in {safety_threshold - 1, safety_threshold}, d \in {0 - 1, 9}}

\* rate_limiter.py:41: the cached quota is missing or older than cache_ttl
NeedsQuery(cache, cache_time, t) ==
    cache = << >> \/ t - cache_time > cache_ttl

\* rate_limiter.py:56-58: seconds to wait for the quota reset (0: no wait)
QuotaWait(rl, t) ==
    IF rl.remaining < safety_threshold /\ rl.reset - t > 0
    THEN rl.reset - t + 1
    ELSE 0

\* rate_limiter.py:75: drop the requests older than one minute
Prune(rt, t) == SelectSeq(rt, LAMBDA x : t - x < window)

\* rate_limiter.py:78-83: seconds slept because the window is full
PerMinuteWait(rt, t) ==
    IF Len(rt) >= max_per_minute /\ window - (t - rt[1]) > 0
    THEN window - (t - rt[1])
    ELSE 0

\* rate_limiter.py:86: the time recorded for this request is the time read
\* at line 72, before the sleep of line 83
RecordedTime(t, slept) == t

\* history: the last max_per_minute + 1 admission times
Remember(adm, t) ==
    LET all == Append(adm, t)
    IN  IF Len(all) > max_per_minute + 1 THEN Tail(all) ELSE all

\* check_and_wait(), the quota query raising: nothing is caught, so the
\* exception leaves check_and_wait before anything is assigned.
CheckAndWaitRaises ==
    /\ gov_pc = "idle"
    /\ NeedsQuery(rate_limit_cache, rate_limit_cache_time, now)
    /\ gov_result' = "raised"
    /\ quota_query' = "failed"
    /\ UNCHANGED <<now, request_times, rate_limit_cache,
                   rate_limit_cache_time, admitted, gov_pc, gov_wake,
                   gov_read>>

\* rate_limiter.py:70-86  _enforce_per_minute_limit() entered at time t:
\* the old requests are dropped (line 75); then either the window is full
\* and the call sleeps (line 83), or the request is recorded and
\* check_and_wait returns.
EnforcePerMinuteLimit(t) ==
    LET pruned == Prune(request_times, t)
        w2 == PerMinuteWait(pruned, t)
    IN  /\ now' = t
        /\ IF w2 > 0
           THEN /\ t + w2 <= MaxTime
                /\ request_times' = pruned
                /\ gov_pc' = "minute_sleep"
                /\ gov_wake' = t + w2
                /\ gov_read' = t
                /\ gov_result' = "waiting"
                /\ admitted' = admitted
           ELSE /\ request_times' = Append(pruned, RecordedTime(t, 0))
                /\ gov_pc' = "idle"
                /\ gov_wake' = NoTime
                /\ gov_read' = NoTime
                /\ gov_result' = "admitted"
                /\ admitted' = Remember(admitted, t)

\* check_and_wait() from its call to its first sleep or, when it does not
\* sleep, to its return: the quota is queried or taken from the cache
\* (lines 38-47); below the safety threshold the call sleeps until the
\* reset (lines 56-63), else _enforce_per_minute_limit() follows.
CheckAndWait ==
    \E q \in {o \in QueryOutcomes(now) : o.ok} :
        LET query == NeedsQuery(rate_limit_cache, rate_limit_cache_time, now)
            rl == IF query THEN [remaining |-> q.remaining, reset |-> q.reset]
                  ELSE rate_limit_cache[1]
            w1 == QuotaWait(rl, now)
        IN  /\ gov_pc = "idle"
            /\ rate_limit_cache' = <<rl>>
            /\ rate_limit_cache_time' =
                   IF query THEN now ELSE rate_limit_cache_time
            /\ quota_query' = IF query THEN "ok" ELSE "cached"
            /\ IF w1 > 0
               THEN /\ now + w1 <= MaxTime
                    /\ gov_pc' = "quota_sleep"
                    /\ gov_wake' = now + w1
                    /\ gov_result' = "waiting"
                    /\ UNCHANGED <<now, request_times, admitted, gov_read>>
               ELSE EnforcePerMinuteLimit(now)

\* rate_limiter.py:63-68: the sleep until the quota reset is over; the
\* cache is invalidated and _enforce_per_minute_limit() follows.
QuotaSleepEnds ==
    /\ gov_pc = "quota_sleep"
    /\ rate_limit_cache' = << >>
    /\ EnforcePerMinuteLimit(gov_wake)
    /\ UNCHANGED <<rate_limit_cache_time, quota_query>>

\* rate_limiter.py:83-86: the sleep of _enforce_per_minute_limit() is over;
\* the time read before it is recorded and check_and_wait returns.
MinuteSleepEnds ==
    /\ gov_pc = "minute_sleep"
    /\ now' = gov_wake
    /\ request_times' =
           Append(request_times, RecordedTime(gov_read, gov_wake - gov_read))
    /\ gov_pc' = "idle"
    /\ gov_wake' = NoTime
    /\ gov_read' = NoTime
    /\ gov_result' = "admitted"
    /\ admitted' = Remember(admitted, gov_wake)
    /\ UNCHANGED <<rate_limit_cache, rate_limit_cache_time, quota_query>>

\* KeyboardInterrupt while check_and_wait sleeps: the exception leaves
\* check_and_wait and its callers (main.py:281), the fields of the limiter
\* stay as they were when the sleep began.
SleepInterrupted ==
    /\ gov_pc \in {"quota_sleep", "minute_sleep"}
    /\ gov_pc' = "exited"
    /\ gov_result' = "interrupted"
    /\ UNCHANGED <<now, request_times, rate_limit_cache,
                   rate_limit_cache_time, quota_query, admitted, gov_wake,
                   gov_read>>

\* The clock advances between two calls of check_and_wait().
GovernorTick ==
    \E d \in GovTimeSteps :
        /\ gov_pc = "idle"
        /\ now + d <= MaxTime
        /\ now' = now + d
        /\ UNCHANGED govVars

\* ------------------------------------------------------ TemporalAnalyzer

\* total_repos of the runs considered (stats['repos_scanned'])
Totals == {5, 10, 20}

\* round(n / d, 3), in thousandths: the nearest, and the even one of the two
\* when n / d lies halfway (a tie of sixteenths, exact in binary, for the
\* counts considered)
Round3(n, d) ==
    LET up == (2000 * n + d) \div (2 * d)
    IN  IF (2000 * n + d) % (2 * d) = 0 /\ up % 2 = 1 THEN up - 1 ELSE up

DetermineTrendDecliningFirst(recent, new, legacy, active, t) ==
    IF t = 0 THEN "NONE"
    ELSE IF 2 * recent > t \/ (10 * new > 6 * t /\ 10 * active > 7 * t)
         THEN "GROWING"
    ELSE IF recent = 0 /\ 10 * new < 3 * t /\ 2 * active < t THEN "DECLINING"
    ELSE IF 10 * legacy > 7 * t /\ 10 * active < 3 * t THEN "ABANDONED"
    ELSE "STABLE"

\* TemporalAnalyzer._determine_trend: the ratios recent/total > 0.5 etc.,
\* compared without rounding
DetermineTrend(recent, new, legacy, active, t) ==
    IF t = 0 THEN "NONE"
    ELSE IF 2 * recent > t \/ (10 * new > 6 * t /\ 10 * active > 7 * t)
         THEN "GROWING"
    ELSE IF 10 * legacy > 7 * t /\ 10 * active < 3 * t THEN "ABANDONED"
    ELSE IF recent = 0 /\ 10 * new < 3 * t /\ 2 * active < t THEN "DECLINING"
    ELSE "STABLE"

\* TemporalAnalyzer._calculate_recency_score, rounded as analyze_technology
\* stores it: round((recent * 1.0 + new * 0.5) / total, 3)
RecencyScore(recent, new, t) ==
    IF t = 0 THEN 0 ELSE Round3(2 * recent + new, 2 * t)

\* round(active_repos / total_repos, 3)
ActivityScore(active, t) == IF t = 0 THEN 0 ELSE Round3(active, t)

\* TemporalAnalyzer._analyze_by_domain: the breakdown, in the order of the
\* dict. known: the repositories carry a domain (all of them the same one).
AnalyzeByDomain(active, t, known) ==
    IF known
    THEN << [total_repos |-> t, activity_score |-> ActivityScore(active, t)] >>
    ELSE << >>

\* TemporalAnalyzer.analyze_technology for t repositories that use the
\* technology, of which `recent` are at most 6 months old, `new` at most 12,
\* `legacy` more than 24, and `active` were pushed to in the last 90 days.
AnalyzeTechnology(recent, new, legacy, active, t, known) ==
    [ total_repos |-> t,
      trend |-> DetermineTrend(recent, new, legacy, active, t),
      recency_score |-> RecencyScore(recent, new, t),
      activity_score |-> ActivityScore(active, t),
      by_domain |-> AnalyzeByDomain(active, t, known) ]

\* The counts of the repositories that use one technology: recent ones (at
\* most 6 months old) are new (at most 12), legacy ones (over 24) are not.
MaxRepos == 10

TemporalCounts ==
    {c \in [recent : 0..MaxRepos, new : 0..MaxRepos, legacy : 0..MaxRepos,
            active : 0..MaxRepos, total : 0..MaxRepos] :
        /\ c.recent <= c.new
        /\ c.new + c.legacy <= c.total
        /\ c.active <= c.total}

TemporalInit ==
    /\ ta_pc = "counted"
    /\ ta_counts = [recent |-> 0, new |-> 0, legacy |-> 0, active |-> 0,
                    total |-> 0]
    /\ ta_trend = "none"
    /\ ta_recency = 0

\* analyze_technology: the call of _determine_trend
CallDetermineTrend ==
    /\ ta_pc = "counted"
    /\ ta_trend' = DetermineTrend(ta_counts.recent, ta_counts.new,
                                  ta_counts.legacy, ta_counts.active,
                                  ta_counts.total)
    /\ ta_pc' = "trend"
    /\ UNCHANGED <<ta_counts, ta_recency>>

\* analyze_technology: the call of _calculate_recency_score
CallRecencyScore ==
    /\ ta_pc = "trend"
    /\ ta_recency' = RecencyScore(ta_counts.recent, ta_counts.new,
                                  ta_counts.total)
    /\ ta_pc' = "scored"
    /\ UNCHANGED <<ta_counts, ta_trend>>

RECURSIVE SumOf(_, _)
\* the sum of the k-th components of the pairs of a sequence
SumOf(doms, k) ==
    IF doms = << >> THEN 0 ELSE doms[1][k] + SumOf(Tail(doms), k)

\* TemporalAnalyzer._analyze_by_domain for repositories of several domains:
\* doms[i] = <<repositories of domain i that use the technology, those of
\* them that are active>>, in the order in which the domains are first met.
AnalyzeByDomains(doms) ==
    [i \in 1..Len(doms) |->
        [total_repos |-> doms[i][1],
         activity_score |-> ActivityScore(doms[i][2], doms[i][1])]]

\* TemporalAnalyzer.analyze_technology for a technology used in the
\* repositories of several domains
AnalyzeTechnologyIn(recent, new, legacy, doms) ==
    [ total_repos |-> SumOf(doms, 1),
      trend |-> DetermineTrend(recent, new, legacy, SumOf(doms, 2),
                               SumOf(doms, 1)),
      recency_score |-> RecencyScore(recent, new, SumOf(doms, 1)),
      activity_score |-> ActivityScore(SumOf(doms, 2), SumOf(doms, 1)),
      by_domain |-> AnalyzeByDomains(doms) ]

\* ------------------------------------------ EnhancedTechnologyClassifier

\* usage_percentage / 100 with usage_percentage = (count / total_repos) * 100:
\* the quotient c / n, kept as it is (the code rounds it nowhere before it
\* compares it), as the pair of its terms
UsageScore(c, n) == <<c, n>>

\* a usage given in thousandths
Thousandths(u) == <<u, 1000>>

\* usage_score < th / 1000, > th / 1000, >= th / 1000
Below(usage, th) == 1000 * usage[1] < th * usage[2]
Above(usage, th) == 1000 * usage[1] > th * usage[2]
AtLeast(usage, th) == 1000 * usage[1] >= th * usage[2]

\* _smart_ring_decision, the test of one entry of by_domain
DomainAdopt(m) ==
    \/ m.total_repos >= 50 /\ m.activity_score >= 500
    \/ m.total_repos >= 70 /\ m.activity_score >= 400

DomainTrial(m) == m.total_repos >= 30 /\ m.activity_score >= 650

\* the entries at which the loop over by_domain returns
DomainHits(bd) ==
    {i \in 1..Len(bd) : /\ bd[i].total_repos >= 20
                        /\ DomainAdopt(bd[i]) \/ DomainTrial(bd[i])}

FirstHit(bd) == CHOOSE i \in DomainHits(bd) : \A j \in DomainHits(bd) : i <= j

GlobalRingDecisionStrict(usage, recency, activity, trend) ==
    IF AtLeast(usage, 400) /\ activity >= 500
    THEN <<0, 900>>
    ELSE IF \/ recency >= 200 /\ activity >= 600 /\ trend = "GROWING"
            \/ AtLeast(usage, 250) /\ activity >= 750
         THEN <<1, 800>>
    ELSE IF (Below(usage, 100) /\ activity < 300) \/ trend = "ABANDONED"
         THEN <<3, 850>>
    ELSE <<2, 600>>

GlobalRingDecisionNoUsageTrial(usage, recency, activity, trend) ==
    IF \/ AtLeast(usage, 400) /\ activity >= 500
       \/ AtLeast(usage, 350) /\ activity >= 600
    THEN <<0, 900>>
    ELSE IF recency >= 200 /\ activity >= 600 /\ trend = "GROWING"
         THEN <<1, 800>>
    ELSE IF (Below(usage, 100) /\ activity < 300) \/ trend = "ABANDONED"
         THEN <<3, 850>>
    ELSE <<2, 600>>

\* _smart_ring_decision after the loop: the global metrics, first match
GlobalRingDecision(usage, recency, activity, trend) ==
    IF \/ AtLeast(usage, 400) /\ activity >= 500
       \/ AtLeast(usage, 350) /\ activity >= 600
    THEN <<0, 900>>
    ELSE IF \/ recency >= 200 /\ activity >= 600 /\ trend = "GROWING"
            \/ AtLeast(usage, 250) /\ activity >= 750
         THEN <<1, 800>>
    ELSE IF (Below(usage, 100) /\ activity < 300) \/ trend = "ABANDONED"
         THEN <<3, 850>>
    ELSE <<2, 600>>

\* _smart_ring_decision: <<ring, base confidence>>
SmartRingDecision(usage, recency, activity, trend, bd) ==
    IF DomainHits(bd) # {}
    THEN IF DomainAdopt(bd[FirstHit(bd)]) THEN <<0, 900>> ELSE <<1, 800>>
    ELSE GlobalRingDecision(usage, recency, activity, trend)

\* _infer_quadrant: 'docker' is in the list of platforms, 'terraform' in
\* no list
InferQuadrant(name) == IF name = "docker-compose" THEN 2 ELSE 0

\* The technologies classified.
TechNames == {"Terraform", "docker-compose"}

\* ai_result.get("quadrant", ...) finds no such key
NoQuadrant == 0 - 1

\* What the Oracle may put in "quadrant" (7: not a quadrant) and in
\* "ai_confidence" ("certain": no known label; "number": not a string;
\* "absent": no such key).
QuadrantReplies == {0, 3, 7, NoQuadrant}
LabelReplies ==
    {"high", "HIGH", "medium", "Medium", "low", "certain", "number", "absent"}

\* The answers of chat.completions.create: a JSON object, text that
\* json.loads rejects, JSON that is no object, or an OpenAIError.
Replies ==
    [kind : {"object"}, quadrant : QuadrantReplies,
     ai_confidence : LabelReplies]
    \cup [kind : {"malformed", "error", "notobject"},
          quadrant : {NoQuadrant}, ai_confidence : {"absent"}]

FallbackClassificationMedium(name) ==
    [kind |-> "object", quadrant |-> InferQuadrant(name),
     ai_confidence |-> "medium"]

\* _fallback_classification
FallbackClassification(name) ==
    [kind |-> "object", quadrant |-> InferQuadrant(name),
     ai_confidence |-> "low"]

\* _get_ai_classification: whatever the try block raises is caught and
\* answered with the fallback; a reply that parses is returned as it is.
AiClassification(name, r) ==
    IF r.kind \in {"malformed", "error"}
    THEN FallbackClassification(name)
    ELSE r

\* classifier_enhanced.py:168: ai_result.get('ai_confidence', 'medium')
AiConfidenceStr(res) ==
    IF res.ai_confidence = "absent" THEN "medium" ELSE res.ai_confidence

\* str.lower() on the labels the Oracle writes
LabelLower(label) ==
    CASE label \in {"HIGH", "High", "high"} -> "high"
      [] label \in {"MEDIUM", "Medium", "medium"} -> "medium"
      [] label \in {"LOW", "Low", "low"} -> "low"
      [] OTHER -> label

\* _convert_ai_confidence: mapping.get(ai_confidence.lower(), 0.5)
ConvertAiConfidence(label) ==
    CASE LabelLower(label) = "high" -> 900
      [] LabelLower(label) = "medium" -> 600
      [] LabelLower(label) = "low" -> 300
      [] OTHER -> 500

\* _calculate_confidence: the number of strong signals
StrongSignals(usage, activity, td) ==
    (IF Above(usage, 700) \/ Below(usage, 100) THEN 1 ELSE 0)
    + (IF activity > 800 \/ activity < 200 THEN 1 ELSE 0)
    + (IF td.trend \in {"GROWING", "ABANDONED"} THEN 1 ELSE 0)
    + (IF td.total_repos >= 5 THEN 1 ELSE 0)

Min(a, b) == IF a <= b THEN a ELSE b

CalculateConfidenceSum(usage, activity, td, ring_confidence, ai_confidence) ==
    (StrongSignals(usage, activity, td) * 250)
    + (4 * ring_confidence + 2 * ai_confidence) \div 10

\* _calculate_confidence: signal_confidence * 0.4 + ring_confidence * 0.4 +
\* ai_confidence * 0.2, at most 1.0, with signal_confidence = strong / 4
CalculateConfidence(usage, activity, td, ring_confidence, ai_confidence) ==
    Min((4 * (StrongSignals(usage, activity, td) * 250)
         + 4 * ring_confidence + 2 * ai_confidence) \div 10, 1000)

\* _determine_review_need
DetermineReviewNeed(confidence, td, usage) ==
    \/ confidence < 750
    \/ td.trend = "DECLINING" /\ Above(usage, 300)
    \/ td.trend = "GROWING" /\ Below(usage, 100)
    \/ td.total_repos < 3

ReviewReasonDataFirst(confidence, td, usage) ==
    CASE td.total_repos < 3 -> "Limited data (fewer than 3 repos)"
      [] confidence < 750 -> "Low confidence classification"
      [] td.trend = "DECLINING" /\ Above(usage, 300) ->
             "High usage but declining trend"
      [] td.trend = "GROWING" /\ Below(usage, 100) ->
             "Low usage but growing trend"
      [] OTHER -> "None"

\* _determine_review_need: the reason returned with the flag, that of the
\* first test that passes; None when none does.
ReviewReason(confidence, td, usage) ==
    IF confidence < 750 THEN "Low confidence classification"
    ELSE IF td.trend = "DECLINING" /\ Above(usage, 300)
         THEN "High usage but declining trend"
    ELSE IF td.trend = "GROWING" /\ Below(usage, 100)
         THEN "Low usage but growing trend"
    ELSE IF td.total_repos < 3 THEN "Limited data (fewer than 3 repos)"
    ELSE "None"

\* _classify_single_enhanced raises (AttributeError) on a result that is no
\* dict or whose ai_confidence is no string; classify_technologies logs the
\* error and goes on without a decision for the technology.
Raises(res) == res.kind = "notobject" \/ res.ai_confidence = "number"

\* the dict returned by _classify_single_enhanced, with the list that
\* classify_technologies puts it in
Decide(name, usage, td, rg, res) ==
    LET confidence ==
            CalculateConfidence(usage, td.activity_score, td, rg[2],
                                ConvertAiConfidence(AiConfidenceStr(res)))
    IN  [ quadrant |-> IF res.quadrant = NoQuadrant
                       THEN InferQuadrant(name) ELSE res.quadrant,
          ring |-> rg[1],
          confidence |-> confidence,
          needs_review |-> DetermineReviewNeed(confidence, td, usage),
          review_reason |->
              IF DetermineReviewNeed(confidence, td, usage)
              THEN ReviewReason(confidence, td, usage) ELSE "None",
          list |-> IF confidence >= 750 THEN "high_confidence"
                   ELSE "needs_review" ]

\* classification.min_repos when it is not configured
\* (classifier_enhanced.py:70)
min_repos == 2

\* The classification section of the configuration: domain_min_repos is
\* what min_repos_by_domain gives for the domain the repositories carry
\* (min_repos when the domain is not listed), exclude_patterns the
\* patterns, here without wildcards.
DefaultClassification ==
    [domain_min_repos |-> min_repos, exclude_patterns |-> {}]

Classifications ==
    { DefaultClassification,
      [domain_min_repos |-> 1, exclude_patterns |-> {"terraform"}] }

\* tech_name.lower()
TechLower(name) == IF name = "Terraform" THEN "terraform" ELSE name

\* _meets_domain_threshold for a technology counted c times, used by t
\* recorded repositories, all of one domain (known) or of none: the global
\* threshold, then the one of the domain ('unknown' has the default).
MeetsDomainThreshold(c, t, known, cfg) ==
    \/ c >= min_repos
    \/ /\ t > 0
       /\ t >= (IF known THEN cfg.domain_min_repos ELSE min_repos)

\* _should_exclude: fnmatch of the lower-case name against each pattern
ShouldExclude(name, cfg) == TechLower(name) \in cfg.exclude_patterns

ClassifyInitOf(cfgs) ==
    /\ cls_pc = "idle"
    /\ classification \in cfgs
    /\ tech_name = "none"
    /\ count = 0
    /\ total = 0
    /\ usage_score = Thousandths(0)
    /\ temporal_data = AnalyzeTechnology(0, 0, 0, 0, 0, FALSE)
    /\ ring = << >>
    /\ asks = 0
    /\ reply = "none"
    /\ ai_result = << >>
    /\ decision = << >>
    /\ dup_asks = 0
    /\ dup_reply = "none"
    /\ dup_result = "none"

ClassifyInit == ClassifyInitOf({DefaultClassification})

\* classify_technologies is at the head of its loop
\* (classifier_enhanced.py:73), before the first technology or after
\* NextTechnology.
AtNextTechnology == cls_pc = "idle"

\* classify_technologies, lines 73-92: the next technology, counted in c
\* observations when n repositories were counted as scanned, passes
\* _meets_domain_threshold and _should_exclude; analyze_technology finds it
\* in t records (fewer than c when records failed to build,
\* scanner.py:187-207, none at all gives _empty_analysis).
Analyze ==
    /\ AtNextTechnology
    /\ \E name \in TechNames, n \in Totals, c \in 1..MaxCount,
          known \in BOOLEAN :
         \E t \in 0..c :
           \E new \in 0..t, active \in 0..t :
             \E recent \in 0..new, legacy \in 0..(t - new) :
               /\ t = 0 => ~known
               /\ MeetsDomainThreshold(c, t, known, classification)
               /\ ~ShouldExclude(name, classification)
               /\ tech_name' = name
               /\ count' = c
               /\ total' = n
               /\ usage_score' = UsageScore(c, n)
               /\ temporal_data' =
                      AnalyzeTechnology(recent, new, legacy, active, t, known)
    /\ cls_pc' = "analyzed"
    /\ ring' = << >>
    /\ asks' = 0
    /\ reply' = "none"
    /\ ai_result' = << >>
    /\ decision' = << >>
    /\ UNCHANGED <<classification, dup_asks, dup_reply, dup_result>>

\* classify_technologies, lines 75-87: the next technology fails
\* _meets_domain_threshold or matches _should_exclude; the loop goes on
\* with the one after it, nothing is analysed and the Oracle is not asked.
SkipTechnology ==
    /\ AtNextTechnology
    /\ \E name \in TechNames, c \in 1..MaxCount, known \in BOOLEAN :
         \E t \in 0..c :
           /\ t = 0 => ~known
           /\ \/ ~MeetsDomainThreshold(c, t, known, classification)
              \/ ShouldExclude(name, classification)
           /\ tech_name' = name
           /\ count' = c
    /\ cls_pc' = "skipped"
    /\ total' = 0
    /\ usage_score' = Thousandths(0)
    /\ temporal_data' = AnalyzeTechnology(0, 0, 0, 0, 0, FALSE)
    /\ ring' = << >>
    /\ asks' = 0
    /\ reply' = "none"
    /\ ai_result' = << >>
    /\ decision' = << >>
    /\ UNCHANGED <<classification, dup_asks, dup_reply, dup_result>>

\* classify_technologies, line 90 with total_repos = 0 (every record failed
\* to build, yet observations were made): count / total_repos raises
\* ZeroDivisionError, the except of line 117 logs it and the technology is
\* in neither list.
AnalyzeRaises ==
    /\ AtNextTechnology
    /\ \E name \in TechNames, c \in min_repos..MaxCount :
         /\ ~ShouldExclude(name, classification)
         /\ tech_name' = name
         /\ count' = c
    /\ cls_pc' = "dropped"
    /\ total' = 0
    /\ usage_score' = Thousandths(0)
    /\ temporal_data' = AnalyzeTechnology(0, 0, 0, 0, 0, FALSE)
    /\ ring' = << >>
    /\ asks' = 0
    /\ reply' = "none"
    /\ ai_result' = << >>
    /\ decision' = << >>
    /\ UNCHANGED <<classification, dup_asks, dup_reply, dup_result>>

\* _classify_single_enhanced: the call of _smart_ring_decision
DecideRing ==
    /\ cls_pc = "analyzed"
    /\ ring' = SmartRingDecision(usage_score, temporal_data.recency_score,
                                 temporal_data.activity_score,
                                 temporal_data.trend, temporal_data.by_domain)
    /\ cls_pc' = "ring"
    /\ UNCHANGED <<classification, tech_name, count, total, usage_score, temporal_data, asks,
                   reply, ai_result, decision, dup_asks, dup_reply,
                   dup_result>>

\* _classify_single_enhanced: the call of _get_ai_classification. Its try
\* block catches every Exception, so backoff.on_exception never sees an
\* OpenAIError and the Oracle is asked once.
AskOracle ==
    /\ cls_pc = "ring"
    /\ \E r \in Replies :
          /\ reply' = r.kind
          /\ ai_result' = AiClassification(tech_name, r)
    /\ asks' = asks + 1
    /\ cls_pc' = "asked"
    /\ UNCHANGED <<classification, tech_name, count, total, usage_score, temporal_data, ring,
                   decision, dup_asks, dup_reply, dup_result>>

\* _classify_single_enhanced from the conversion of the confidence label to
\* the returned dict, and the split of classify_technologies.
Conclude ==
    /\ cls_pc = "asked"
    /\ IF Raises(ai_result)
       THEN /\ decision' = << >>
            /\ cls_pc' = "dropped"
       ELSE /\ decision' = << Decide(tech_name, usage_score, temporal_data,
                                     ring, ai_result) >>
            /\ cls_pc' = "decided"
    /\ UNCHANGED <<classification, tech_name, count, total, usage_score, temporal_data, ring,
                   asks, reply, ai_result, dup_asks, dup_reply, dup_result>>

\* classifier_enhanced.py:73: the technology is skipped, in one of the two
\* lists (lines 107-114) or logged as failed (line 117), and the loop of
\* classify_technologies comes back to its head.
NextTechnology ==
    /\ cls_pc \in {"skipped", "decided", "dropped"}
    /\ cls_pc' = "idle"
    /\ tech_name' = "none"
    /\ count' = 0
    /\ total' = 0
    /\ usage_score' = Thousandths(0)
    /\ temporal_data' = AnalyzeTechnology(0, 0, 0, 0, 0, FALSE)
    /\ ring' = << >>
    /\ asks' = 0
    /\ reply' = "none"
    /\ ai_result' = << >>
    /\ decision' = << >>
    /\ UNCHANGED <<classification, dup_asks, dup_reply, dup_result>>

\* main.py:213, ai_filter.py:387: the loop of classify_technologies is over
\* (two technologies at least are in its lists), filtering is enabled and
\* _detect_all_duplicates reaches its first group of similar names.
StartCuration ==
    /\ cls_pc = "idle"
    /\ cls_pc' = "curating"
    /\ UNCHANGED <<classification, tech_name, count, total, usage_score,
                   temporal_data, ring, asks, reply, ai_result, decision,
                   dup_asks, dup_reply, dup_result>>

\* What the Oracle answers to the question about duplicates.
DupReplies == {"duplicates", "distinct", "malformed", "notobject", "error"}

\* ai_filter.py:439-444: backoff.on_exception(OpenAIError, max_tries=2)
DupMaxTries == 2

\* _detect_duplicates under backoff: one call of chat.completions.create.
\* An OpenAIError is retried until max_tries; any other exception
\* (json.loads, result.get) reaches the except of _detect_all_duplicates,
\* which logs it and goes to the next group.
DupAsk ==
    /\ cls_pc = "curating"
    /\ \E r \in DupReplies :
          /\ dup_reply' = r
          /\ dup_asks' = dup_asks + 1
          /\ IF r = "error" /\ dup_asks' < DupMaxTries
             THEN /\ cls_pc' = "curating"
                  /\ dup_result' = dup_result
             ELSE /\ cls_pc' = "curated"
                  /\ dup_result' = CASE r = "duplicates" -> "merged"
                                     [] r = "distinct" -> "kept"
                                     [] OTHER -> "skipped"
    /\ UNCHANGED <<classification, tech_name, count, total, usage_score, temporal_data, ring,
                   asks, reply, ai_result, decision>>

\* ai_filter.py:387-398: the loop of _detect_all_duplicates goes on with
\* the next group of similar names.
NextGroup ==
    /\ cls_pc = "curated"
    /\ cls_pc' = "curating"
    /\ dup_asks' = 0
    /\ dup_reply' = "none"
    /\ dup_result' = "none"
    /\ UNCHANGED <<classification, tech_name, count, total, usage_score,
                   temporal_data, ring, asks, reply, ai_result, decision>>

\* ai_filter.py:398: the last group of similar names is done; the next run
\* of main() reads the same configuration.
RunEnds ==
    /\ cls_pc = "curated"
    /\ cls_pc' = "idle"
    /\ dup_asks' = 0
    /\ dup_reply' = "none"
    /\ dup_result' = "none"
    /\ UNCHANGED <<classification, tech_name, count, total, usage_score,
                   temporal_data, ring, asks, reply, ai_result, decision>>


\* ---------------------------------------------------- AITechnologyFilter

\* metadata.total_repos of the classified technologies: the repositories
\* scanned
TotalRepos == 10

\* overrides.always_include_if_repos_gte (5 when not configured)
always_include_min_repos == 5

\* overrides.always_include_names of the configuration considered
AlwaysIncludeNames == {"Kubernetes"}

\* ai_filter.strategic_value.include_if (['high', 'medium'] by default)
StrategicInclude == {"high", "medium"}

\* The names of the technologies considered, and a name that the Oracle may
\* give as canonical although no technology has it.
TechFamily == {"Redis", "redis", "Redis DB"}
OtherNames == {"Kubernetes", "curl", "Zipkin"}
OfficialName == "REDIS"

\* str.lower()
Lower(name) ==
    CASE name \in {"Redis", "redis", "REDIS"} -> "redis"
      [] name = "Redis DB" -> "redis db"
      [] name = "Kubernetes" -> "kubernetes"
      [] name = "curl" -> "curl"
      [] name = "Zipkin" -> "zipkin"

\* len(name)
NameLen(name) ==
    CASE name \in {"Redis", "redis", "REDIS"} -> 5
      [] name = "Redis DB" -> 8
      [] name = "Kubernetes" -> 10
      [] name = "curl" -> 4
      [] name = "Zipkin" -> 6

\* a in b, for the lower-case names and the listed utilities
IsIn(a, b) ==
    \/ a = b
    \/ <<a, b>> \in {<<"redis", "redis db">>, <<"zip", "zipkin">>}

\* other.startswith(name + ' ')
StartsWithSpaced(other, name) == name = "Redis" /\ other = "Redis DB"

\* _should_auto_ignore: os_utils and dev_utils
Utilities ==
    {"apt-get", "brew", "curl", "wget", "tar", "zip", "unzip", "grep", "sed",
     "awk", "rimraf", "nodemon", "npm-run-all", "cross-env", "dotenv",
     "envsubst"}

MatchesUtility(name) == \E util \in Utilities : IsIn(util, Lower(name))

\* round(n / d, 1) in tenths, a tie going to the even neighbour
Round1(n, d) ==
    LET up == (20 * n + d) \div (2 * d)
    IN  IF (20 * n + d) % (2 * d) = 0 /\ up % 2 = 1 THEN up - 1 ELSE up

\* round((repos_count / total_repos) * 100, 1), in tenths of a percent
UsagePercentage(repos_count) == Round1(100 * repos_count, TotalRepos)

\* one entry of the classified list
Technology(name, repos_count) ==
    [name |-> name, repos_count |-> repos_count,
     usage_percentage |-> UsagePercentage(repos_count)]

NamesOf(techs) == {techs[i].name : i \in 1..Len(techs)}

TechNamed(techs, name) ==
    techs[CHOOSE i \in 1..Len(techs) : techs[i].name = name]

\* _should_auto_ignore with the three rules enabled (the default)
ShouldAutoIgnore(tech) ==
    tech.repos_count = 1 \/ MatchesUtility(tech.name)

\* The values that the prompt asks the Oracle to choose from, for
\* strategic_value and for confidence alike.
StrategicValues == {"high", "medium", "low"}

\* What the Oracle answers about the strategic value, after `calls` calls
\* of chat.completions.create (with two, the first raised an OpenAIError,
\* which backoff retries once): a JSON object with this strategic_value and
\* this confidence (absent: without the key), text that is no JSON, JSON
\* that is no object, or no answer at all (an OpenAIError at both of two
\* calls, another exception at the only one).
StrategicReplies ==
    [kind : {"object"}, strategic_value : StrategicValues \cup {"absent"},
     confidence : StrategicValues \cup {"absent"}, calls : {1, 2}]
    \cup [kind : {"malformed", "notobject", "error"},
          strategic_value : {"absent"}, confidence : {"absent"},
          calls : {1, 2}]

\* _evaluate_all_strategic_value: the technologies the Oracle is asked about
NeedsOracle(tech) ==
    /\ tech.name \notin AlwaysIncludeNames
    /\ tech.repos_count < always_include_min_repos
    /\ ~ShouldAutoIgnore(tech)

StrategicQuestion(tech) == <<"strategic", tech.name, tech.repos_count>>

\* _evaluate_all_strategic_value, the decision for one technology; answer is
\* the Oracle's answer when it is asked (and is not looked at when it is
\* not). An object is returned as the Oracle gave it, its strategic_value
\* and confidence included, with should_include set by
\* _evaluate_strategic_value (a missing strategic_value counts as 'medium');
\* whatever the call raises gives the default of the except clause. asks:
\* calls of chat.completions.create made for the technology.
StrategicDecision(tech, answer) ==
    IF tech.name \in AlwaysIncludeNames
    THEN [should_include |-> TRUE, strategic_value |-> "high",
          confidence |-> "high", asks |-> 0]
    ELSE IF tech.repos_count >= always_include_min_repos
    THEN [should_include |-> TRUE, strategic_value |-> "medium",
          confidence |-> "high", asks |-> 0]
    ELSE IF ShouldAutoIgnore(tech)
    THEN [should_include |-> FALSE, strategic_value |-> "low",
          confidence |-> "high", asks |-> 0]
    ELSE IF answer.kind \in {"malformed", "notobject", "error"}
    THEN [should_include |-> TRUE, strategic_value |-> "unknown",
          confidence |-> "low", asks |-> answer.calls]
    ELSE [should_include |->
              (IF answer.strategic_value = "absent" THEN "medium"
               ELSE answer.strategic_value) \in StrategicInclude,
          strategic_value |-> answer.strategic_value,
          confidence |-> answer.confidence, asks |-> answer.calls]

CurationInit ==
    /\ cur_pc = "classified"
    /\ technologies = << >>
    /\ strategic_decisions = << >>
    /\ merge_groups = << >>
    /\ consolidations = << >>
    /\ final_technologies = << >>
    /\ oracle = {}
    /\ run = 1
    /\ given = << >>
    /\ merges_before = 0

\* filter_technologies, phase 1: _evaluate_all_strategic_value. The Oracle
\* answers each question as it pleases, whatever it answered before.
EvaluateAllStrategicValue ==
    /\ cur_pc = "classified"
    /\ LET asked == {name \in NamesOf(technologies) :
                        NeedsOracle(TechNamed(technologies, name))}
       IN  \E replies \in [asked -> StrategicReplies] :
              /\ strategic_decisions' =
                    [name \in NamesOf(technologies) |->
                        StrategicDecision(TechNamed(technologies, name),
                                          IF name \in asked
                                          THEN replies[name]
                                          ELSE << >>)]
              /\ oracle' = oracle \cup
                    {<<StrategicQuestion(TechNamed(technologies, name)),
                       replies[name]>> : name \in asked}
    /\ cur_pc' = "evaluated"
    /\ UNCHANGED <<technologies, merge_groups, consolidations,
                   final_technologies, run, given, merges_before>>

\* _group_similar_names: the test of two names
Similar(name, other) ==
    \/ Lower(name) = Lower(other)
    \/ /\ IsIn(Lower(name), Lower(other)) \/ IsIn(Lower(other), Lower(name))
       /\ NameLen(name) - NameLen(other) <= 5
       /\ NameLen(other) - NameLen(name) <= 5

RECURSIVE GroupsFrom(_, _, _)
\* _group_similar_names: the loop over tech_names from position i on
GroupsFrom(names, processed, i) ==
    IF i > Len(names) THEN << >>
    ELSE IF names[i] \in processed THEN GroupsFrom(names, processed, i + 1)
    ELSE LET IsSimilar(other) == /\ other # names[i]
                                 /\ other \notin processed
                                 /\ Similar(names[i], other)
             similar == <<names[i]>> \o SelectSeq(names, IsSimilar)
         IN  IF Len(similar) > 1
             THEN <<similar>>
                  \o GroupsFrom(names, processed \cup Range(similar), i + 1)
             ELSE GroupsFrom(names, processed, i + 1)

NameList(techs) == [i \in 1..Len(techs) |-> techs[i].name]

GroupSimilarNames(techs) == GroupsFrom(NameList(techs), {}, 1)

RECURSIVE SubSeqs(_)
\* the lists of some of the names of a list, in its order
SubSeqs(q) ==
    IF q = << >> THEN {<< >>}
    ELSE LET rest == SubSeqs(Tail(q))
         IN  rest \cup {<<Head(q)>> \o r : r \in rest}

\* What the Oracle answers about a group of similar names: that they are
\* distinct; text that is no JSON; no answer at all (OpenAIError at both
\* calls); that they are duplicates, with a canonical name and the names to
\* merge into it, or with no list of names at all.
DuplicateAnswers(group) ==
    {[kind |-> k, canonical_name |-> "", merge_candidates |-> << >>] :
        k \in {"distinct", "malformed", "error"}}
    \cup {[kind |-> "nocandidates", canonical_name |-> c,
           merge_candidates |-> << >>] : c \in {group[1]}}
    \cup {[kind |-> "duplicates", canonical_name |-> c,
           merge_candidates |-> cs] :
             c \in Range(group) \cup {OfficialName}, cs \in SubSeqs(group)}

\* _detect_all_duplicates: the results appended to merge_groups are those
\* with are_duplicates true; one without merge_candidates is appended before
\* the KeyError of the statistics is caught.
Accepted(answers) ==
    SelectSeq(answers, LAMBDA a : a.kind \in {"duplicates", "nocandidates"})

\* filter_technologies, phase 2: _detect_all_duplicates
DetectAllDuplicates ==
    /\ cur_pc = "evaluated"
    /\ LET groups == GroupSimilarNames(technologies)
       IN  \E answers \in [1..Len(groups) ->
                             UNION {DuplicateAnswers(groups[i]) :
                                      i \in 1..Len(groups)}] :
              /\ \A i \in 1..Len(groups) :
                    answers[i] \in DuplicateAnswers(groups[i])
              /\ merge_groups' = Accepted(answers)
              /\ oracle' = oracle \cup
                    {<<<<"duplicates", groups[i]>>, answers[i]>> :
                        i \in 1..Len(groups)}
    /\ cur_pc' = "duplicates"
    /\ UNCHANGED <<technologies, strategic_decisions, consolidations,
                   final_technologies, run, given, merges_before>>

\* _find_potential_hierarchies: the children of a name, in the order of the
\* list
ChildrenOf(names, name) ==
    SelectSeq(names, LAMBDA other : other # name
                                    /\ StartsWithSpaced(other, name))

\* the parents, in the order in which the dict received them
PotentialParents(names) ==
    SelectSeq(names, LAMBDA name : ChildrenOf(names, name) # << >>)

\* What the Oracle answers about a parent and its children.
HierarchyAnswers == {"consolidate", "separate", "error"}

\* filter_technologies, phases 3 and 4: _detect_all_hierarchies, and
\* _detect_deprecated, which finds none of its two known names
DetectAllHierarchies ==
    /\ cur_pc = "duplicates"
    /\ LET names == NameList(technologies)
           parents == PotentialParents(names)
           Question(i) ==
               <<"hierarchy", parents[i], ChildrenOf(names, parents[i])>>
       IN  \E answers \in [1..Len(parents) -> HierarchyAnswers] :
              /\ consolidations' =
                    LET all == [i \in 1..Len(parents) |->
                                  [parent |-> parents[i],
                                   children |-> ChildrenOf(names, parents[i]),
                                   verdict |-> answers[i]]]
                        kept == SelectSeq(all, LAMBDA c :
                                                 c.verdict = "consolidate")
                    IN  [i \in 1..Len(kept) |->
                           [parent |-> kept[i].parent,
                            children |-> kept[i].children]]
              /\ oracle' = oracle \cup
                    {<<Question(i), answers[i]>> : i \in 1..Len(parents)}
    /\ cur_pc' = "filtered"
    /\ UNCHANGED <<technologies, strategic_decisions, merge_groups,
                   final_technologies, run, given, merges_before>>

RECURSIVE SumCounts(_, _)
\* sum(tech_lookup[name]['metadata']['repos_count'] for name in names if
\* name in tech_lookup)
SumCounts(techs, names) ==
    IF names = << >> THEN 0
    ELSE (IF Head(names) \in NamesOf(techs)
          THEN TechNamed(techs, Head(names)).repos_count ELSE 0)
         + SumCounts(techs, Tail(names))

\* apply_filter_decisions, step 2 for one group: the canonical entry, when
\* there is one, gets the sum of the counts and the usage recomputed
MergeOne(techs, group) ==
    LET total_repos == SumCounts(techs, <<group.canonical_name>>
                                         \o group.merge_candidates)
    IN  [i \in 1..Len(techs) |->
           IF techs[i].name = group.canonical_name
           THEN Technology(techs[i].name, total_repos)
           ELSE techs[i]]

RECURSIVE MergeAll(_, _)
\* the groups in turn, up to one that lacks merge_candidates (KeyError)
MergeAll(techs, groups) ==
    IF groups = << >> \/ Head(groups).kind = "nocandidates" THEN techs
    ELSE MergeAll(MergeOne(techs, Head(groups)), Tail(groups))

\* apply_filter_decisions: to_remove
ToRemove ==
    {name \in NamesOf(technologies) :
        ~strategic_decisions[name].should_include}
    \cup UNION {Range(merge_groups[i].merge_candidates) :
                  i \in 1..Len(merge_groups)}
    \cup UNION {Range(consolidations[i].children) :
                  i \in 1..Len(consolidations)}

\* apply_filter_decisions. The entries of the list are changed in place;
\* the list returned holds those whose names were not marked for removal.
ApplyFilterDecisions ==
    /\ cur_pc = "filtered"
    /\ technologies' = MergeAll(technologies, merge_groups)
    /\ IF \E i \in 1..Len(merge_groups) :
             merge_groups[i].kind = "nocandidates"
       THEN /\ cur_pc' = "crashed"
            /\ final_technologies' = << >>
       ELSE /\ cur_pc' = "applied"
            /\ final_technologies' =
                  SelectSeq(technologies',
                            LAMBDA tech : tech.name \notin ToRemove)
    /\ UNCHANGED <<strategic_decisions, merge_groups, consolidations, oracle,
                   run, given, merges_before>>

\* main: the Curation Engine is run on the list it returned, with a filter
\* of the same configuration.
RunAgain ==
    /\ cur_pc = "applied"
    /\ run = 1
    /\ run' = 2
    /\ cur_pc' = "classified"
    /\ technologies' = final_technologies
    /\ given' = final_technologies
    /\ merges_before' = Len(merge_groups)
    /\ strategic_decisions' = << >>
    /\ merge_groups' = << >>
    /\ consolidations' = << >>
    /\ final_technologies' = << >>
    /\ UNCHANGED oracle

\* ------------------------------------------- ProgressTracker and the scan

\* Before main() is started for the first time: no checkpoint file.
ScanInitOf(filters) ==
    /\ file = << >>
    /\ pc = "off"
    /\ mode = "default"
    /\ enabled = TRUE
    /\ scanned_repos = << >>
    /\ idx = 1
    /\ repo_details = << >>
    /\ stats = [repos_scanned |-> 0, repos_skipped |-> 0, errors |-> 0]
    /\ excluded \in filters
    /\ rerun = FALSE
    /\ prev_end = "none"
    /\ prev_enabled = FALSE
    /\ loaded = {}
    /\ completed = {}
    /\ completed_before = {}
    /\ attempted = {}
    /\ inflight = "none"
    /\ written = "none"
    /\ skipped_known = 0
    /\ listed = TRUE
    /\ observed = {}

ScanInit == ScanInitOf(FilterChoices)

\* main.py:138-140: checkpointing is on (checkpoint.enabled is left at its
\* default, True) unless --fresh is given
CheckpointEnabled(m) == IF m = "fresh" THEN FALSE ELSE TRUE

\* ProgressTracker._save, progress.py:59-60: open(path, 'w') empties the
\* file and json.dump writes the document piece by piece. The content of
\* the file of a process killed in between: no JSON document.
PartialFile == <<"{">>

\* ProgressTracker._load, progress.py:42-49: the file exists and json.load
\* reads it
Readable(f) == f # << >> /\ f[1] # PartialFile

\* The scanned_repos a readable file holds, none otherwise.
Persisted(f) == IF Readable(f) THEN f[1] ELSE << >>

\* ProgressTracker.__init__ and _load: the list a new tracker starts with
\* (an unreadable file gives [], progress.py:47-49)
Load(en, m, f) ==
    IF en /\ m = "resume" /\ Readable(f) THEN f[1] ELSE << >>

\* main.py:148-149 and ProgressTracker.clear: --fresh deletes the file
Clear(m, f) == IF m = "fresh" THEN << >> ELSE f

\* ProgressTracker._save, progress.py:56-64: how an enabled _save() can
\* end. "ok": the document is written. "unopened": open() raised (the
\* directory is missing or not writable). "cut": the write raised after
\* open() had emptied the file. The except clause logs either failure and
\* _save returns as if nothing had happened.
SaveOutcomes == {"ok", "unopened", "cut"}

\* ProgressTracker._save: the file after _save() of the list `data` ended
\* with outcome o
Save(en, f, data, o) ==
    IF ~en THEN f
    ELSE CASE o = "ok" -> <<data>>
           [] o = "unopened" -> f
           [] o = "cut" -> <<PartialFile>>

\* How the last _save() ended, after one more call of it
Written(en, w, o) == IF en THEN o ELSE w

\* ProgressTracker.is_scanned
IsScannedNever(data, r) == FALSE
IsScanned(data, r) == r \in Range(data)

\* progress.py:92-93
Mark(data, r) == IF r \in Range(data) THEN data ELSE Append(data, r)

\* progress.py:96: len(scanned_repos) % save_interval == 0
SaveDue(n, k) == n % k = 0

\* ProgressTracker.mark_scanned: the file after marking (data is the list
\* with the repository already appended)
MarkSave(en, f, data, o) ==
    IF SaveDue(Len(data), save_interval) THEN Save(en, f, data, o) ELSE f

MarkWritten(en, w, data, o) ==
    IF SaveDue(Len(data), save_interval) THEN Written(en, w, o) ELSE w

Bump(st, field) == [st EXCEPT ![field] = @ + 1]

\* How a process of main() can have ended: returned 0, returned 1,
\* returned 130, killed.
Ended == {"done", "failed", "exited", "dead"}

\* main(): a run starts (the first, or the one after it). The tracker is built (loading the file under
\* --resume), --fresh clears the file, start_scan() saves, and the scanner
\* is built with a new breaker.
StartRun ==
    \E m \in Modes, o \in SaveOutcomes :
        LET en == CheckpointEnabled(m)
            data == Load(en, m, file)
        IN  /\ pc = "off" \/ (pc \in Ended /\ ~rerun)
            /\ rerun' = (pc # "off")
            /\ prev_end' = (IF pc = "off" THEN "none" ELSE pc)
            /\ prev_enabled' = (pc # "off" /\ enabled)
            /\ pc' = "scanning"
            /\ mode' = m
            /\ enabled' = en
            /\ scanned_repos' = data
            /\ file' = Save(en, Clear(m, file), data, o)
            /\ written' = Written(en, "none", o)
            /\ idx' = 1
            /\ repo_details' = << >>
            /\ stats' = [repos_scanned |-> 0, repos_skipped |-> 0, errors |-> 0]
            /\ loaded' = Range(data)
            /\ completed_before' = completed \ {inflight}
            /\ attempted' = {}
            /\ inflight' = "none"
            /\ skipped_known' = 0
            /\ listed' = TRUE
            /\ observed' = {}
            /\ state' = "CLOSED"
            /\ failure_count' = 0
            /\ last_failure_time' = NoTime
            /\ cb_pc' = "idle"
            /\ cb_event' = "init"
            /\ invoked' = 0
            /\ entered_as' = "none"
            /\ consec' = 0
            /\ reopened_at' = NoTime
            /\ UNCHANGED <<now, completed>>

\* main(): the first run starts.
StartOnce == pc = "off" /\ StartRun

\* main.py:142-159: a run starts without --fresh and the process is killed
\* inside the _save() of start_scan(): the checkpoint file is left without
\* a JSON document. The scanner and its breaker are not built.
StartRunKilled ==
    \E m \in Modes \ {"fresh"} :
        LET data == Load(TRUE, m, file)
        IN  /\ pc = "off" \/ (pc \in Ended /\ ~rerun)
            /\ rerun' = (pc # "off")
            /\ prev_end' = (IF pc = "off" THEN "none" ELSE pc)
            /\ prev_enabled' = (pc # "off" /\ enabled)
            /\ pc' = "dead"
            /\ mode' = m
            /\ enabled' = TRUE
            /\ scanned_repos' = data
            /\ file' = <<PartialFile>>
            /\ written' = "cut"
            /\ idx' = 1
            /\ repo_details' = << >>
            /\ stats' = [repos_scanned |-> 0, repos_skipped |-> 0, errors |-> 0]
            /\ loaded' = Range(data)
            /\ completed_before' = completed \ {inflight}
            /\ attempted' = {}
            /\ inflight' = "none"
            /\ skipped_known' = 0
            /\ listed' = TRUE
            /\ observed' = {}
            /\ UNCHANGED <<now, cbVars, completed>>

\* scanner.py:270-305
ShouldSkipRepo(r) == r \in excluded

AtRepo == pc = "scanning" /\ cb_pc = "idle" /\ idx <= Len(Population)

\* scanner.py:106: the position at which the organization of position i
\* ends, and the repositories of that organization
OrgNext(i) == IF i < SecondOrgAt THEN SecondOrgAt ELSE Len(Population) + 1
OrgFirst(i) == IF i < SecondOrgAt THEN 1 ELSE SecondOrgAt
OrgRepos(i) == {Population[j] : j \in OrgFirst(i)..(OrgNext(i) - 1)}

\* scanner.py:145-177 and 117-122: scan_organization raises outside the try
\* of its loop body: check_and_wait() or the listing before the first
\* repository, or is_scanned, _should_skip_repo or the progress callback at
\* a later one. scan_organizations counts the error and goes on with the
\* next organization; the two lists that scan_organization had collected
\* are never returned. What mark_scanned recorded stays.
OrgFails ==
    /\ AtRepo
    /\ stats' = Bump(stats, "errors")
    /\ idx' = OrgNext(idx)
    /\ listed' = FALSE
    /\ repo_details' = SelectSeq(repo_details,
                                 LAMBDA r : r \notin OrgRepos(idx))
    /\ observed' = observed \ OrgRepos(idx)
    /\ UNCHANGED <<now, cbVars, file, pc, mode, enabled, scanned_repos,
                   rerun, prev_end, prev_enabled, loaded,
                   completed, completed_before, attempted, inflight, written>>

\* scanner.py:164-167: the repository is in the checkpoint
SkipScanned ==
    /\ AtRepo
    /\ IsScanned(scanned_repos, Population[idx])
    /\ stats' = Bump(stats, "repos_skipped")
    /\ skipped_known' = skipped_known + 1
    /\ idx' = idx + 1
    /\ UNCHANGED <<now, cbVars, file, pc, mode, enabled, scanned_repos,
                   repo_details, rerun, prev_end, prev_enabled, loaded,
                   completed, completed_before, attempted, inflight, written,
                   observed>>

\* scanner.py:170-173: _should_skip_repo(repo) holds
SkipFiltered ==
    /\ AtRepo
    /\ ~IsScanned(scanned_repos, Population[idx])
    /\ ShouldSkipRepo(Population[idx])
    /\ stats' = Bump(stats, "repos_skipped")
    /\ idx' = idx + 1
    /\ UNCHANGED <<now, cbVars, file, pc, mode, enabled, scanned_repos,
                   repo_details, rerun, prev_end, prev_enabled, loaded,
                   completed, completed_before, attempted, inflight, written,
                   observed>>

ScanRejectedStops ==
    /\ AtRepo
    /\ ~IsScanned(scanned_repos, Population[idx])
    /\ ~ShouldSkipRepo(Population[idx])
    /\ CallReject
    /\ stats' = Bump(stats, "errors")
    /\ idx' = Len(Population) + 1
    /\ UNCHANGED <<file, pc, mode, enabled, scanned_repos,
                   repo_details, rerun, prev_end, prev_enabled, loaded,
                   completed, completed_before, attempted, inflight, written,
                   observed>>

\* scanner.py:181 and 216-218: circuit_breaker.call raises because the
\* breaker is OPEN; the error is counted and the loop goes on.
ScanRejected ==
    /\ AtRepo
    /\ ~IsScanned(scanned_repos, Population[idx])
    /\ ~ShouldSkipRepo(Population[idx])
    /\ CallReject
    /\ stats' = Bump(stats, "errors")
    /\ idx' = idx + 1
    /\ UNCHANGED <<file, pc, mode, enabled, scanned_repos,
                   repo_details, rerun, prev_end, prev_enabled, loaded,
                   completed, completed_before, attempted, inflight, written,
                   observed>>

\* scanner.py:181: circuit_breaker.call invokes _scan_repository(repo)
ScanEnter ==
    /\ AtRepo
    /\ ~IsScanned(scanned_repos, Population[idx])
    /\ ~ShouldSkipRepo(Population[idx])
    /\ CallEnter
    /\ attempted' = attempted \cup {Population[idx]}
    /\ UNCHANGED <<file, pc, mode, enabled, scanned_repos, idx,
                   repo_details, stats, rerun, prev_end, prev_enabled, loaded,
                   completed, completed_before, inflight, written, observed>>

InFlight == pc = "scanning" /\ cb_pc = "in_call"

\* scanner.py:181-187: _scan_repository returned and with it
\* circuit_breaker.call, which recorded the success. The dict of categories
\* returned is never empty, so it is appended to all_repo_techs. The domain
\* detection and the building of the record (lines 189-205) come next.
ScanReturn ==
    /\ InFlight
    /\ CallReturn
    /\ pc' = "recording"
    /\ completed' = completed \cup {Population[idx]}
    /\ observed' = observed \cup {Population[idx]}
    /\ UNCHANGED <<file, mode, enabled, scanned_repos, idx, repo_details,
                   stats, rerun, prev_end, prev_enabled, loaded,
                   completed_before, attempted, inflight, written>>

\* scanner.py:189-207: detect_domain returned or raised an Exception (caught
\* at line 194), the record was built and appended, and the repository is
\* counted.
RecordAppended ==
    /\ pc = "recording"
    /\ pc' = "marking"
    /\ repo_details' = Append(repo_details, Population[idx])
    /\ stats' = Bump(stats, "repos_scanned")
    /\ UNCHANGED <<now, cbVars, file, mode, enabled, scanned_repos, idx,
                   rerun, prev_end, prev_enabled, loaded, completed,
                   completed_before, attempted, inflight, written, observed>>

\* scanner.py:197-205 and 216-218: building the record raised (reading an
\* attribute of the repository, or _get_temporal_metadata): the except
\* clause of the loop body counts an error and the loop goes on. The breaker
\* had recorded a success; there is no record, no count and no mark.
RecordRaises ==
    /\ pc = "recording"
    /\ pc' = "scanning"
    /\ stats' = Bump(stats, "errors")
    /\ idx' = idx + 1
    /\ UNCHANGED <<now, cbVars, file, mode, enabled, scanned_repos,
                   repo_details, rerun, prev_end, prev_enabled, loaded,
                   completed, completed_before, attempted, inflight, written,
                   observed>>

\* scanner.py:209-214: progress_tracker.mark_scanned(repo.full_name,
\* save_interval), which ends the iteration of the loop.
MarkScanned ==
    /\ pc = "marking"
    /\ pc' = "scanning"
    /\ scanned_repos' = Mark(scanned_repos, Population[idx])
    /\ \E o \in SaveOutcomes :
          /\ file' = MarkSave(enabled, file, scanned_repos', o)
          /\ written' = MarkWritten(enabled, written, scanned_repos', o)
    /\ idx' = idx + 1
    /\ UNCHANGED <<now, cbVars, mode, enabled, repo_details, stats, rerun,
                   prev_end, prev_enabled, loaded, completed,
                   completed_before, attempted, inflight, observed>>

\* progress.py:92-97 and 59-60: mark_scanned appended the repository, the
\* save was due, and the process was killed inside _save().
MarkScannedKilled ==
    /\ pc = "marking"
    /\ enabled
    /\ SaveDue(Len(Mark(scanned_repos, Population[idx])), save_interval)
    /\ pc' = "dead"
    /\ scanned_repos' = Mark(scanned_repos, Population[idx])
    /\ file' = <<PartialFile>>
    /\ written' = "cut"
    /\ inflight' = Population[idx]
    /\ UNCHANGED <<now, cbVars, mode, enabled, idx, repo_details, stats,
                   rerun, prev_end, prev_enabled, loaded, completed,
                   completed_before, attempted, observed>>

ScanRaiseMarks ==
    /\ InFlight
    /\ CallRaise
    /\ stats' = Bump(stats, "errors")
    /\ scanned_repos' = Mark(scanned_repos, Population[idx])
    /\ \E o \in SaveOutcomes :
          /\ file' = MarkSave(enabled, file, scanned_repos', o)
          /\ written' = MarkWritten(enabled, written, scanned_repos', o)
    /\ idx' = idx + 1
    /\ UNCHANGED <<pc, mode, enabled, repo_details, rerun, prev_end,
                   prev_enabled, loaded, completed, completed_before,
                   attempted, inflight, observed>>

\* scanner.py:216-218: _scan_repository raised; the breaker re-raises, the
\* error is counted and the loop goes on.
ScanRaise ==
    /\ InFlight
    /\ CallRaise
    /\ stats' = Bump(stats, "errors")
    /\ idx' = idx + 1
    /\ UNCHANGED <<file, pc, mode, enabled, scanned_repos,
                   repo_details, rerun, prev_end, prev_enabled, loaded,
                   completed, completed_before, attempted, inflight, written,
                   observed>>

ScanOver == pc = "scanning" /\ cb_pc = "idle" /\ idx > Len(Population)

\* main.py:179-190: scan_organizations returned; update_stats() saves the
\* checkpoint; tech_counts is not empty and the classification begins.
Finish ==
    /\ ScanOver
    /\ observed # {}
    /\ pc' = "classifying"
    /\ \E o \in SaveOutcomes :
          /\ file' = Save(enabled, file, scanned_repos, o)
          /\ written' = Written(enabled, written, o)
    /\ UNCHANGED <<now, cbVars, mode, enabled, scanned_repos, idx,
                   repo_details, stats, rerun, prev_end, prev_enabled, loaded,
                   completed, completed_before, attempted, inflight, observed>>

\* main.py:179-188: scan_organizations returned; update_stats() saves the
\* checkpoint; tech_counts is empty (nothing was observed, or no
\* observation holds a name) and main returns 1 without finalize().
FinishEmpty ==
    /\ ScanOver
    /\ pc' = "failed"
    /\ \E o \in SaveOutcomes :
          /\ file' = Save(enabled, file, scanned_repos, o)
          /\ written' = Written(enabled, written, o)
    /\ UNCHANGED <<now, cbVars, mode, enabled, scanned_repos, idx,
                   repo_details, stats, rerun, prev_end, prev_enabled, loaded,
                   completed, completed_before, attempted, inflight, observed>>

\* main.py:190-279 (the classification, the filter and the output are over:
\* finalize() saves the checkpoint and main returns 0) and main.py:292-310
\* (one of them raised an Exception: finalize() saves and main returns 1)
Finalize ==
    \E end \in {"done", "failed"} :
        /\ pc = "classifying"
        /\ pc' = end
        /\ \E o \in SaveOutcomes :
              /\ file' = Save(enabled, file, scanned_repos, o)
              /\ written' = Written(enabled, written, o)
        /\ UNCHANGED <<now, cbVars, mode, enabled, scanned_repos, idx,
                       repo_details, stats, rerun, prev_end, prev_enabled,
                       loaded, completed, completed_before, attempted,
                       inflight, observed>>

\* The repository whose iteration of the loop has begun and not ended.
Current ==
    IF cb_pc = "in_call" \/ pc \in {"recording", "marking"}
    THEN Population[idx] ELSE "none"

\* main() is between start_scan() and its return
Running == pc \in {"scanning", "recording", "marking", "classifying"}

\* main.py:281-290: KeyboardInterrupt (between two repositories, inside
\* _scan_repository or detect_domain, where `except Exception` does not
\* catch it, before mark_scanned, or during the classification):
\* finalize() saves, the process exits with 130.
Interrupt ==
    /\ Running
    /\ pc' = "exited"
    /\ \E o \in SaveOutcomes :
          /\ file' = Save(enabled, file, scanned_repos, o)
          /\ written' = Written(enabled, written, o)
    /\ inflight' = Current
    /\ UNCHANGED <<now, cbVars, mode, enabled, scanned_repos, idx,
                   repo_details, stats, rerun, prev_end, prev_enabled, loaded,
                   completed, completed_before, attempted, observed>>

\* progress.py:59-60 under main.py:182 (update_stats), main.py:276
\* (finalize) or main.py:286 (finalize of the KeyboardInterrupt handler,
\* wherever the interrupt came): the process is killed, or interrupted once
\* more, inside _save().
FlushKilled ==
    /\ enabled
    /\ \/ ScanOver
       \/ pc = "classifying"
       \/ Running
    /\ pc' = "dead"
    /\ file' = <<PartialFile>>
    /\ written' = "cut"
    /\ inflight' = Current
    /\ UNCHANGED <<now, cbVars, mode, enabled, scanned_repos, idx,
                   repo_details, stats, rerun, prev_end, prev_enabled, loaded,
                   completed, completed_before, attempted, observed>>

\* The process is killed (SIGKILL, power loss) between two file writes:
\* nothing runs any more, the file stays as it was last written.
Crash ==
    /\ Running
    /\ pc' = "dead"
    /\ inflight' = Current
    /\ UNCHANGED <<now, cbVars, file, mode, enabled, scanned_repos, idx,
                   repo_details, stats, rerun, prev_end, prev_enabled, loaded,
                   completed, completed_before, attempted, written, observed>>

\* The cooldown of an OPEN breaker passes while the scan goes on (the scan
\* reads the clock nowhere else).
ScanTick ==
    /\ AtRepo
    /\ Rejects(state, now, last_failure_time)
    /\ now + timeout <= MaxTime
    /\ now' = now + timeout
    /\ cb_event' = "tick"
    /\ UNCHANGED <<state, failure_count, last_failure_time, cb_pc, invoked,
                   entered_as, consec, reopened_at, scanVars>>

\* ------------------------------------- the usage index of the scan

\* Repositories met by one run of scan_organizations.
IndexRepos == 3

\* Technology names as the detectors return them; two differ only in case.
IndexNames == {"Redis", "redis"}

\* detector.py:48-53: the categories of an observation (two of the four);
\* the deep scan adds its findings to 'tools' (scanner.py:248-254).
Categories == {"languages", "tools"}

\* What _scan_repository can return: a set of names for each category.
Observations == [Categories -> SUBSET IndexNames]

\* detector.py:303-306: all_techs, the union of the categories
Flatten(repo_techs) == UNION {repo_techs[c] : c \in DOMAIN repo_techs}

\* detector.py:303-310: what one observation adds to the count of a name
Occurrences(repo_techs, tech) ==
    IF tech \in Flatten(repo_techs) THEN 1 ELSE 0

RECURSIVE AggregateTechnologies(_)
\* detector.py:289-311  aggregate_technologies: for each observation, in
\* order, every name of the flattened set gets one more
AggregateTechnologies(all) ==
    IF all = << >> THEN << >>
    ELSE LET before == AggregateTechnologies(SubSeq(all, 1, Len(all) - 1))
             all_techs == Flatten(all[Len(all)])
         IN  [tech \in DOMAIN before \cup all_techs |->
                (IF tech \in DOMAIN before THEN before[tech] ELSE 0)
                + Occurrences(all[Len(all)], tech)]

\* scanner.py:103-104
IndexInit ==
    /\ ix_pc = "scanning"
    /\ all_repo_techs = << >>
    /\ all_repo_details = << >>
    /\ org_techs = << >>
    /\ org_repos = << >>
    /\ tech_counts = << >>
    /\ ix_seen = 0

\* scanner.py:179-214: circuit_breaker.call returned the observation of a
\* repository; it is appended to all_repo_techs (line 187) and then, in a
\* record built without an exception (lines 198-206), to repo_details.
IndexScanReturns ==
    \E techs \in Observations :
        /\ ix_pc = "scanning"
        /\ ix_seen < IndexRepos
        /\ ix_seen' = ix_seen + 1
        /\ org_techs' = Append(org_techs, techs)
        /\ org_repos' = Append(org_repos,
                               [full_name |-> ix_seen', technologies |-> techs])
        /\ UNCHANGED <<ix_pc, all_repo_techs, all_repo_details, tech_counts>>

\* scanner.py:187-218: circuit_breaker.call returned the observation and it
\* was appended to all_repo_techs; then the domain detection, the reading
\* of the repository's attributes or _get_temporal_metadata raised before
\* repo_details.append (lines 189-206). The except clause of the loop
\* counts an error and the loop goes on: the observation stays.
IndexRecordRaises ==
    \E techs \in Observations :
        /\ ix_pc = "scanning"
        /\ ix_seen < IndexRepos
        /\ ix_seen' = ix_seen + 1
        /\ org_techs' = Append(org_techs, techs)
        /\ UNCHANGED <<ix_pc, all_repo_techs, all_repo_details, org_repos,
                       tech_counts>>

\* scanner.py:216-218: circuit_breaker.call raised; nothing is appended.
IndexScanRaises ==
    /\ ix_pc = "scanning"
    /\ ix_seen < IndexRepos
    /\ ix_seen' = ix_seen + 1
    /\ UNCHANGED <<ix_pc, all_repo_techs, all_repo_details, org_techs,
                   org_repos, tech_counts>>

\* scanner.py:110-116: scan_organization returned its two lists.
OrgReturns ==
    /\ ix_pc = "scanning"
    /\ all_repo_techs' = all_repo_techs \o org_techs
    /\ all_repo_details' = all_repo_details \o org_repos
    /\ org_techs' = << >>
    /\ org_repos' = << >>
    /\ org_techs # << >>
    /\ UNCHANGED <<ix_pc, tech_counts, ix_seen>>

\* scanner.py:118-123: scan_organization raised (the listing failed while
\* it was iterated): what it had collected is lost.
OrgRaises ==
    /\ ix_pc = "scanning"
    /\ org_techs # << >>
    /\ org_techs' = << >>
    /\ org_repos' = << >>
    /\ UNCHANGED <<ix_pc, all_repo_techs, all_repo_details, tech_counts,
                   ix_seen>>

\* scanner.py:125-128: the organizations are done; aggregate and return.
IndexReturn ==
    /\ ix_pc = "scanning"
    /\ org_techs = << >>
    /\ tech_counts' = AggregateTechnologies(all_repo_techs)
    /\ ix_pc' = "returned"
    /\ UNCHANGED <<all_repo_techs, all_repo_details, org_techs, org_repos,
                   ix_seen>>

\* the stages after the classification have not begun
ExtInit == TemporalInit /\ CurationInit /\ IndexInit

\* Two runs of main(), the second of them from what the first left, over a
\* listing of which three repositories are scanned (the breaker stays
\* CLOSED).
InitScan ==
    /\ now = 0
    /\ GovernorInit
    /\ ScanInitOf(ResumeFilterChoices)
    /\ ExtInit
    /\ ClassifyInit
    /\ BreakerInit
    /\ cb_pc = "idle"
    /\ cb_event = "init"
    /\ invoked = 0
    /\ entered_as = "none"
    /\ consec = 0
    /\ reopened_at = NoTime

NextScan ==
    \/ StartRun /\ UNCHANGED <<govVars, anaVars, excluded>>
    \/ StartRunKilled /\ UNCHANGED <<govVars, anaVars, excluded>>
    \/ OrgFails /\ UNCHANGED <<govVars, anaVars, excluded, skipped_known>>
    \/ SkipScanned /\ UNCHANGED <<govVars, anaVars, excluded, listed>>
    \/ SkipFiltered
           /\ UNCHANGED <<govVars, anaVars, excluded, skipped_known, listed>>
    \/ ScanEnter
           /\ UNCHANGED <<govVars, anaVars, excluded, skipped_known, listed>>
    \/ ScanReturn
           /\ UNCHANGED <<govVars, anaVars, excluded, skipped_known, listed>>
    \/ RecordAppended
           /\ UNCHANGED <<govVars, anaVars, excluded, skipped_known, listed>>
    \/ RecordRaises
           /\ UNCHANGED <<govVars, anaVars, excluded, skipped_known, listed>>
    \/ MarkScanned
           /\ UNCHANGED <<govVars, anaVars, excluded, skipped_known, listed>>
    \/ MarkScannedKilled
           /\ UNCHANGED <<govVars, anaVars, excluded, skipped_known, listed>>
    \/ ScanRaise
           /\ UNCHANGED <<govVars, anaVars, excluded, skipped_known, listed>>
    \/ Finish
           /\ UNCHANGED <<govVars, anaVars, excluded, skipped_known, listed>>
    \/ FinishEmpty
           /\ UNCHANGED <<govVars, anaVars, excluded, skipped_known, listed>>
    \/ Finalize
           /\ UNCHANGED <<govVars, anaVars, excluded, skipped_known, listed>>
    \/ Interrupt
           /\ UNCHANGED <<govVars, anaVars, excluded, skipped_known, listed>>
    \/ FlushKilled
           /\ UNCHANGED <<govVars, anaVars, excluded, skipped_known, listed>>
    \/ Crash /\ UNCHANGED <<govVars, anaVars, excluded, skipped_known, listed>>

SpecScan == InitScan /\ [][NextScan]_vars

\* One run of main() over the whole listing.
InitLoop ==
    /\ now = 0
    /\ GovernorInit
    /\ ScanInit
    /\ ExtInit
    /\ ClassifyInit
    /\ BreakerInit
    /\ cb_pc = "idle"
    /\ cb_event = "init"
    /\ invoked = 0
    /\ entered_as = "none"
    /\ consec = 0
    /\ reopened_at = NoTime

NextLoop ==
    \/ StartOnce /\ UNCHANGED <<govVars, anaVars, excluded>>
    \/ OrgFails /\ UNCHANGED <<govVars, anaVars, excluded, skipped_known>>
    \/ SkipFiltered
           /\ UNCHANGED <<govVars, anaVars, excluded, skipped_known, listed>>
    \/ ScanRejected
           /\ UNCHANGED <<govVars, anaVars, excluded, skipped_known, listed>>
    \/ ScanEnter
           /\ UNCHANGED <<govVars, anaVars, excluded, skipped_known, listed>>
    \/ ScanReturn
           /\ UNCHANGED <<govVars, anaVars, excluded, skipped_known, listed>>
    \/ RecordAppended
           /\ UNCHANGED <<govVars, anaVars, excluded, skipped_known, listed>>
    \/ RecordRaises
           /\ UNCHANGED <<govVars, anaVars, excluded, skipped_known, listed>>
    \/ MarkScanned
           /\ UNCHANGED <<govVars, anaVars, excluded, skipped_known, listed>>
    \/ MarkScannedKilled
           /\ UNCHANGED <<govVars, anaVars, excluded, skipped_known, listed>>
    \/ ScanRaise
           /\ UNCHANGED <<govVars, anaVars, excluded, skipped_known, listed>>
    \/ Finish
           /\ UNCHANGED <<govVars, anaVars, excluded, skipped_known, listed>>
    \/ FinishEmpty
           /\ UNCHANGED <<govVars, anaVars, excluded, skipped_known, listed>>
    \/ Finalize
           /\ UNCHANGED <<govVars, anaVars, excluded, skipped_known, listed>>
    \/ Interrupt
           /\ UNCHANGED <<govVars, anaVars, excluded, skipped_known, listed>>
    \/ FlushKilled
           /\ UNCHANGED <<govVars, anaVars, excluded, skipped_known, listed>>
    \/ Crash /\ UNCHANGED <<govVars, anaVars, excluded, skipped_known, listed>>
    \/ ScanTick
           /\ UNCHANGED <<govVars, anaVars, excluded, skipped_known, listed>>

SpecLoop == InitLoop /\ [][NextLoop]_vars

\* --------------------------- _scan_repository under the circuit breaker

\* scanner.py:145: scan_organization begins with check_and_wait(), once
\* for the organization and outside circuit_breaker.call; the call goes on
\* after each of its sleeps until it returns, and the breaker is not
\* touched.
ScanOrganizationAdmitted ==
    /\ cb_pc = "idle"
    /\ \/ CheckAndWait
       \/ QuotaSleepEnds
       \/ MinuteSleepEnds
       \/ SleepInterrupted
    /\ UNCHANGED cbVars

\* scanner.py:145: the quota query of the organization's check_and_wait()
\* raises; the exception leaves scan_organization (scanner.py:220) before a
\* repository is listed, and no failure is recorded by the breaker.
ScanOrganizationAdmitRaises ==
    /\ cb_pc = "idle"
    /\ gov_pc = "idle"
    /\ CheckAndWaitRaises
    /\ UNCHANGED cbVars

\* scanner.py:181: circuit_breaker.call refuses: _scan_repository, and with
\* it check_and_wait, is not called.
GuardRejects ==
    /\ gov_pc = "idle"
    /\ CallReject
    /\ UNCHANGED govVars

\* scanner.py:181: circuit_breaker.call invokes _scan_repository(repo).
GuardEnters ==
    /\ gov_pc = "idle"
    /\ CallEnter
    /\ gov_result' = "pending"
    /\ UNCHANGED <<request_times, rate_limit_cache, rate_limit_cache_time,
                   quota_query, admitted, gov_pc, gov_wake, gov_read>>

\* scanner.py:232-233: _scan_repository begins with check_and_wait(); the
\* quota query raises, the exception leaves _scan_repository and reaches
\* the except clause of CircuitBreaker.call.
ScanRepositoryAdmitRaises ==
    /\ cb_pc = "in_call"
    /\ gov_result = "pending"
    /\ CheckAndWaitRaises
    /\ CallRaise

\* scanner.py:232-233: check_and_wait() is called, and goes on after each
\* of its sleeps, until it returns; a KeyboardInterrupt during a sleep
\* passes through CircuitBreaker.call, which catches Exception only.
ScanRepositoryAdmitted ==
    /\ cb_pc = "in_call"
    /\ \/ gov_result = "pending" /\ CheckAndWait
       \/ QuotaSleepEnds
       \/ MinuteSleepEnds
       \/ SleepInterrupted
    /\ UNCHANGED cbVars

\* scanner.py:236-264: the detection returns the technologies.
ScanRepositoryReturns ==
    /\ gov_result = "admitted"
    /\ CallReturn
    /\ UNCHANGED govVars

\* scanner.py:236: the detection raises.
ScanRepositoryRaises ==
    /\ gov_result = "admitted"
    /\ CallRaise
    /\ UNCHANGED govVars

\* The clock advances between two repositories: past the age of the cached
\* quota, or by the cooldown of the breaker.
GuardTick ==
    \E d \in {2 * cache_ttl, timeout} :
        /\ cb_pc = "idle"
        /\ gov_pc = "idle"
        /\ now + d <= MaxTime
        /\ now' = now + d
        /\ cb_event' = "tick"
        /\ UNCHANGED <<state, failure_count, last_failure_time, cb_pc,
                       invoked, entered_as, consec, reopened_at>>
        /\ UNCHANGED govVars

\* ------------------------------------------------------- specifications

InitGovernor ==
    /\ now = 0
    /\ GovernorInit
    /\ ScanInit
    /\ ExtInit
    /\ ClassifyInit
    /\ BreakerInit
    /\ cb_pc = "idle"
    /\ cb_event = "init"
    /\ invoked = 0
    /\ entered_as = "none"
    /\ consec = 0
    /\ reopened_at = NoTime

NextGovernor ==
    \/ CheckAndWaitRaises /\ UNCHANGED <<cbVars, scanVars, anaVars>>
    \/ CheckAndWait /\ UNCHANGED <<cbVars, scanVars, anaVars>>
    \/ QuotaSleepEnds /\ UNCHANGED <<cbVars, scanVars, anaVars>>
    \/ MinuteSleepEnds /\ UNCHANGED <<cbVars, scanVars, anaVars>>
    \/ SleepInterrupted /\ UNCHANGED <<cbVars, scanVars, anaVars>>
    \/ GovernorTick /\ UNCHANGED <<cbVars, scanVars, anaVars>>

SpecGovernor == InitGovernor /\ [][NextGovernor]_vars

InitBreaker ==
    /\ now = 0
    /\ BreakerInit
    /\ GovernorInit
    /\ ScanInit
    /\ ExtInit
    /\ ClassifyInit
    /\ cb_pc = "idle"
    /\ cb_event = "init"
    /\ invoked = 0
    /\ entered_as = "none"
    /\ consec = 0
    /\ reopened_at = NoTime

NextBreaker ==
    \/ CallReject /\ UNCHANGED <<govVars, scanVars, anaVars>>
    \/ CallEnter /\ UNCHANGED <<govVars, scanVars, anaVars>>
    \/ CallReturn /\ UNCHANGED <<govVars, scanVars, anaVars>>
    \/ CallRaise /\ UNCHANGED <<govVars, scanVars, anaVars>>
    \/ Reset /\ UNCHANGED <<govVars, scanVars, anaVars>>
    \/ BreakerTick /\ UNCHANGED <<govVars, scanVars, anaVars>>

SpecBreaker == InitBreaker /\ [][NextBreaker]_vars

InitClassify ==
    /\ now = 0
    /\ BreakerInit
    /\ GovernorInit
    /\ ScanInit
    /\ ExtInit
    /\ ClassifyInitOf(Classifications)
    /\ cb_pc = "idle"
    /\ cb_event = "init"
    /\ invoked = 0
    /\ entered_as = "none"
    /\ consec = 0
    /\ reopened_at = NoTime

NextClassify ==
    \/ Analyze /\ UNCHANGED <<now, cbVars, govVars, scanVars, extVars>>
    \/ SkipTechnology
          /\ UNCHANGED <<now, cbVars, govVars, scanVars, extVars>>
    \/ AnalyzeRaises
          /\ UNCHANGED <<now, cbVars, govVars, scanVars, extVars>>
    \/ DecideRing /\ UNCHANGED <<now, cbVars, govVars, scanVars, extVars>>
    \/ AskOracle /\ UNCHANGED <<now, cbVars, govVars, scanVars, extVars>>
    \/ Conclude /\ UNCHANGED <<now, cbVars, govVars, scanVars, extVars>>
    \/ StartCuration /\ UNCHANGED <<now, cbVars, govVars, scanVars, extVars>>
    \/ DupAsk /\ UNCHANGED <<now, cbVars, govVars, scanVars, extVars>>
    \/ NextTechnology
          /\ UNCHANGED <<now, cbVars, govVars, scanVars, extVars>>
    \/ NextGroup /\ UNCHANGED <<now, cbVars, govVars, scanVars, extVars>>
    \/ RunEnds /\ UNCHANGED <<now, cbVars, govVars, scanVars, extVars>>

SpecClassify == InitClassify /\ [][NextClassify]_vars

\* The arguments of _smart_ring_decision on both sides of each threshold.
UsageGrid ==
    {Thousandths(u) :
        u \in {50, 99, 100, 249, 250, 300, 349, 350, 399, 400}}
ActivityGrid == {299, 300, 499, 500, 599, 600, 749, 750, 900}
RecencyGrid == {199, 200}
Trends == {"GROWING", "STABLE", "DECLINING", "ABANDONED"}

DomainEntries ==
    [total_repos : {19, 30, 49, 50, 69, 70},
     activity_score : {399, 400, 499, 500, 649, 650}]

\* by_domain with at most two domains, in either order
Breakdowns ==
    {<< >>} \cup {<<a>> : a \in DomainEntries}
            \cup {<<a, b>> : a \in DomainEntries, b \in DomainEntries}

\* _smart_ring_decision as a function of its arguments: every combination
\* of the grids without a breakdown, and every breakdown with the corners
\* of the grids.
InitRing ==
    /\ now = 0
    /\ BreakerInit
    /\ GovernorInit
    /\ ScanInit
    /\ ExtInit
    /\ cb_pc = "idle"
    /\ cb_event = "init"
    /\ invoked = 0
    /\ entered_as = "none"
    /\ consec = 0
    /\ reopened_at = NoTime
    /\ cls_pc = "analyzed"
    /\ classification = DefaultClassification
    /\ tech_name = "Terraform"
    /\ count = 0
    /\ total = 0
    /\ \/ /\ usage_score \in UsageGrid
          /\ temporal_data \in [total_repos : {5}, trend : Trends,
                                recency_score : RecencyGrid,
                                activity_score : ActivityGrid,
                                by_domain : {<< >>}]
       \/ /\ usage_score \in {Thousandths(50), Thousandths(400)}
          /\ temporal_data \in [total_repos : {5},
                                trend : {"GROWING", "STABLE"},
                                recency_score : {200},
                                activity_score : {299, 900},
                                by_domain : Breakdowns \ {<< >>}]
    /\ ring = << >>
    /\ asks = 0
    /\ reply = "none"
    /\ ai_result = << >>
    /\ decision = << >>
    /\ dup_asks = 0
    /\ dup_reply = "none"
    /\ dup_result = "none"

NextRing == DecideRing /\ UNCHANGED <<now, cbVars, govVars, scanVars, extVars>>

SpecRing == InitRing /\ [][NextRing]_vars

\* Technologies of a large organization, for the review escalation: used in
\* 2 or 3 repositories, or in 400 of two domains, 70 of them in the first.
ReviewDomains ==
    { << <<2, 0>> >>, << <<2, 2>> >>, << <<3, 0>> >>, << <<3, 3>> >>,
      << <<70, 28>>, <<330, 0>> >>, << <<70, 70>>, <<330, 330>> >> }

\* classify_technologies has analyzed such a technology, found in all, in a
\* tenth or in a twentieth of the repositories scanned, all of the
\* repositories using it recent, or all legacy, or all of middle age.
InitReview ==
    /\ now = 0
    /\ BreakerInit
    /\ GovernorInit
    /\ ScanInit
    /\ ExtInit
    /\ cb_pc = "idle"
    /\ cb_event = "init"
    /\ invoked = 0
    /\ entered_as = "none"
    /\ consec = 0
    /\ reopened_at = NoTime
    /\ cls_pc = "analyzed"
    /\ classification = DefaultClassification
    /\ tech_name = "Terraform"
    /\ \E doms \in ReviewDomains, k \in {1, 10, 20},
          age \in {"recent", "middle", "legacy"} :
          LET t == SumOf(doms, 1)
          IN  /\ count = t
              /\ total = k * t
              /\ usage_score = UsageScore(t, k * t)
              /\ temporal_data =
                     AnalyzeTechnologyIn(IF age = "recent" THEN t ELSE 0,
                                         IF age = "recent" THEN t ELSE 0,
                                         IF age = "legacy" THEN t ELSE 0,
                                         doms)
    /\ ring = << >>
    /\ asks = 0
    /\ reply = "none"
    /\ ai_result = << >>
    /\ decision = << >>
    /\ dup_asks = 0
    /\ dup_reply = "none"
    /\ dup_result = "none"

NextReview ==
    \/ DecideRing /\ UNCHANGED <<now, cbVars, govVars, scanVars, extVars>>
    \/ AskOracle /\ UNCHANGED <<now, cbVars, govVars, scanVars, extVars>>
    \/ Conclude /\ UNCHANGED <<now, cbVars, govVars, scanVars, extVars>>

SpecReview == InitReview /\ [][NextReview]_vars

\* analyze_technology as a function of the counts of the repositories that
\* use the technology
InitTemporal ==
    /\ now = 0
    /\ BreakerInit
    /\ GovernorInit
    /\ ScanInit
    /\ ClassifyInit
    /\ IndexInit
    /\ cb_pc = "idle"
    /\ cb_event = "init"
    /\ invoked = 0
    /\ entered_as = "none"
    /\ consec = 0
    /\ reopened_at = NoTime
    /\ CurationInit
    /\ ta_pc = "counted"
    /\ ta_counts \in TemporalCounts
    /\ ta_trend = "none"
    /\ ta_recency = 0

NextTemporal ==
    \/ CallDetermineTrend
           /\ UNCHANGED <<now, cbVars, govVars, scanVars, clsVars, curVars, ixVars>>
    \/ CallRecencyScore
           /\ UNCHANGED <<now, cbVars, govVars, scanVars, clsVars, curVars, ixVars>>

SpecTemporal == InitTemporal /\ [][NextTemporal]_vars

\* Two technologies of different names reach the strategic filter.
StrategicInputs ==
    {<<Technology(a, m), Technology(b, n)>> :
        a \in {"Redis"} \cup OtherNames, b \in {"Redis"} \cup OtherNames,
        m \in {1, 2, 4, 5}, n \in {1, 2, 4, 5}} \
    {<<Technology(a, m), Technology(a, n)>> :
        a \in {"Redis"} \cup OtherNames,
        m \in {1, 2, 4, 5}, n \in {1, 2, 4, 5}}

InitStrategic ==
    /\ now = 0
    /\ BreakerInit
    /\ GovernorInit
    /\ ScanInit
    /\ ClassifyInit
    /\ IndexInit
    /\ TemporalInit
    /\ cb_pc = "idle"
    /\ cb_event = "init"
    /\ invoked = 0
    /\ entered_as = "none"
    /\ consec = 0
    /\ reopened_at = NoTime
    /\ cur_pc = "classified"
    /\ technologies \in StrategicInputs
    /\ strategic_decisions = << >>
    /\ merge_groups = << >>
    /\ consolidations = << >>
    /\ final_technologies = << >>
    /\ oracle = {}
    /\ run = 1
    /\ given = technologies
    /\ merges_before = 0

NextStrategic ==
    EvaluateAllStrategicValue
        /\ UNCHANGED <<now, cbVars, govVars, scanVars, clsVars, taVars, ixVars>>

SpecStrategic == InitStrategic /\ [][NextStrategic]_vars

RECURSIVE Orders(_)
\* the lists of the elements of a set, in every order
Orders(S) ==
    IF S = {} THEN {<< >>}
    ELSE UNION {{<<x>> \o q : q \in Orders(S \ {x})} : x \in S}

\* The classified lists given to the Curation Engine: technologies of the
\* family in every order, each used in 1 repository or in 5.
CurationInputs ==
    UNION {
      UNION {
        {[i \in 1..Len(names) |-> Technology(names[i], counts[names[i]])] :
            counts \in [S -> {1, 5}]} :
        names \in Orders(S)} :
      S \in SUBSET TechFamily \ {{}}}

InitCuration ==
    /\ now = 0
    /\ BreakerInit
    /\ GovernorInit
    /\ ScanInit
    /\ ClassifyInit
    /\ IndexInit
    /\ TemporalInit
    /\ cb_pc = "idle"
    /\ cb_event = "init"
    /\ invoked = 0
    /\ entered_as = "none"
    /\ consec = 0
    /\ reopened_at = NoTime
    /\ cur_pc = "classified"
    /\ technologies \in CurationInputs
    /\ strategic_decisions = << >>
    /\ merge_groups = << >>
    /\ consolidations = << >>
    /\ final_technologies = << >>
    /\ oracle = {}
    /\ run = 1
    /\ given = technologies
    /\ merges_before = 0

NextCuration ==
    \/ EvaluateAllStrategicValue
          /\ UNCHANGED <<now, cbVars, govVars, scanVars, clsVars, taVars, ixVars>>
    \/ DetectAllDuplicates
          /\ UNCHANGED <<now, cbVars, govVars, scanVars, clsVars, taVars, ixVars>>
    \/ DetectAllHierarchies
          /\ UNCHANGED <<now, cbVars, govVars, scanVars, clsVars, taVars, ixVars>>
    \/ ApplyFilterDecisions
          /\ UNCHANGED <<now, cbVars, govVars, scanVars, clsVars, taVars, ixVars>>
    \/ RunAgain
          /\ UNCHANGED <<now, cbVars, govVars, scanVars, clsVars, taVars, ixVars>>

SpecCuration == InitCuration /\ [][NextCuration]_vars

InitIndex ==
    /\ now = 0
    /\ BreakerInit
    /\ GovernorInit
    /\ ScanInit
    /\ ExtInit
    /\ ClassifyInit
    /\ cb_pc = "idle"
    /\ cb_event = "init"
    /\ invoked = 0
    /\ entered_as = "none"
    /\ consec = 0
    /\ reopened_at = NoTime

NextIndex ==
    \/ IndexScanReturns
          /\ UNCHANGED <<now, cbVars, govVars, scanVars, clsVars, taVars,
                         curVars>>
    \/ IndexRecordRaises
          /\ UNCHANGED <<now, cbVars, govVars, scanVars, clsVars, taVars,
                         curVars>>
    \/ IndexScanRaises
          /\ UNCHANGED <<now, cbVars, govVars, scanVars, clsVars, taVars,
                         curVars>>
    \/ OrgReturns
          /\ UNCHANGED <<now, cbVars, govVars, scanVars, clsVars, taVars,
                         curVars>>
    \/ OrgRaises
          /\ UNCHANGED <<now, cbVars, govVars, scanVars, clsVars, taVars,
                         curVars>>
    \/ IndexReturn
          /\ UNCHANGED <<now, cbVars, govVars, scanVars, clsVars, taVars,
                         curVars>>

SpecIndex == InitIndex /\ [][NextIndex]_vars

InitGuard ==
    /\ now = 0
    /\ BreakerInit
    /\ GovernorInit
    /\ ScanInit
    /\ ExtInit
    /\ ClassifyInit
    /\ cb_pc = "idle"
    /\ cb_event = "init"
    /\ invoked = 0
    /\ entered_as = "none"
    /\ consec = 0
    /\ reopened_at = NoTime

NextGuard ==
    \/ ScanOrganizationAdmitted /\ UNCHANGED <<scanVars, anaVars>>
    \/ ScanOrganizationAdmitRaises /\ UNCHANGED <<scanVars, anaVars>>
    \/ GuardRejects /\ UNCHANGED <<scanVars, anaVars>>
    \/ GuardEnters /\ UNCHANGED <<scanVars, anaVars>>
    \/ ScanRepositoryAdmitRaises /\ UNCHANGED <<scanVars, anaVars>>
    \/ ScanRepositoryAdmitted /\ UNCHANGED <<scanVars, anaVars>>
    \/ ScanRepositoryReturns /\ UNCHANGED <<scanVars, anaVars>>
    \/ ScanRepositoryRaises /\ UNCHANGED <<scanVars, anaVars>>
    \/ GuardTick /\ UNCHANGED <<scanVars, anaVars>>

SpecGuard == InitGuard /\ [][NextGuard]_vars



\* ------------------------------------------------- claims: CircuitBreaker

\* A step that is part of a call(): entering, rejecting, returning, raising.
CallEvents == {"enter", "reject", "return", "raise"}

\* C1: the breaker goes from CLOSED to OPEN exactly on the step in which the
\* failure_threshold-th consecutive guarded call raises, and a call that
\* returns leaves the failure counter at 0.
C1_OpensOnNthConsecutiveFailure ==
    [][ /\ (state = "CLOSED" /\ state' = "OPEN")
            <=> (state = "CLOSED" /\ cb_event' = "raise"
                 /\ consec' = failure_threshold)
        /\ cb_event' = "return" => failure_count' = 0
      ]_vars

\* C1 witness: the fifth consecutive failure has just opened the breaker.
C1_Witness ==
    /\ state = "OPEN"
    /\ cb_event = "raise"
    /\ consec = failure_threshold
    /\ entered_as = "CLOSED"

\* C2: while OPEN with less than the cooldown elapsed since the last
\* failure, a call() raises without invoking func and changes neither the
\* state, the failure counter nor the last-failure time.
C2_OpenRejectsWithinCooldown ==
    [][ ( /\ state = "OPEN"
          /\ cb_pc = "idle"
          /\ now - last_failure_time < timeout
          /\ cb_event' \in CallEvents )
        => ( /\ cb_event' = "reject"
             /\ invoked' = 0
             /\ cb_pc' = "idle"
             /\ UNCHANGED <<state, failure_count, last_failure_time>> )
      ]_vars

\* C2 witness: a call was rejected one second before the cooldown ended.
C2_Witness ==
    /\ state = "OPEN"
    /\ cb_event = "reject"
    /\ invoked = 0
    /\ now - last_failure_time = timeout - 1

\* C3: once the cooldown has elapsed, the next call() moves OPEN to
\* HALF_OPEN and invokes func once; HALF_OPEN exists only while that trial
\* runs; when the trial returns the breaker is CLOSED with counter 0, and a
\* call on a CLOSED breaker is executed.
C3_TrialAfterCooldown ==
    [][ /\ ( /\ state = "OPEN"
             /\ cb_pc = "idle"
             /\ now - last_failure_time >= timeout
             /\ cb_event' \in CallEvents )
           => ( /\ cb_event' = "enter"
                /\ state' = "HALF_OPEN"
                /\ invoked' = 1
                /\ cb_pc' = "in_call" )
        /\ state' = "HALF_OPEN" => (cb_pc' = "in_call" /\ invoked' = 1)
        /\ (state = "HALF_OPEN" /\ cb_event' = "return")
           => ( /\ state' = "CLOSED"
                /\ failure_count' = 0
                /\ invoked' = 1
                /\ cb_pc' = "idle" )
        /\ (state = "CLOSED" /\ cb_pc = "idle" /\ cb_event' \in CallEvents)
           => (cb_event' = "enter" /\ invoked' = 1 /\ state' = "CLOSED")
      ]_vars

\* C3 witness: a HALF_OPEN trial has returned and closed the breaker.
C3_Witness ==
    /\ entered_as = "HALF_OPEN"
    /\ cb_event = "return"
    /\ state = "CLOSED"
    /\ failure_count = 0

\* C4: when the HALF_OPEN trial raises, the breaker is OPEN when call()
\* ends, the last-failure time is the time of that failure, and for the
\* whole cooldown after it every call() is rejected without invoking func.
C4_TrialFailureReopens ==
    [][ /\ (state = "HALF_OPEN" /\ cb_event' = "raise")
           => ( /\ state' = "OPEN"
                /\ last_failure_time' = now'
                /\ reopened_at' = now'
                /\ cb_pc' = "idle" )
        /\ ( /\ reopened_at # NoTime
             /\ now - reopened_at < timeout
             /\ cb_pc = "idle"
             /\ cb_event' \in CallEvents )
           => ( /\ cb_event' = "reject"
                /\ invoked' = 0
                /\ UNCHANGED <<state, last_failure_time>> )
      ]_vars

\* C4 witness: a call is rejected at the end of the cooldown that a failed
\* trial restarted.
C4_Witness ==
    /\ reopened_at # NoTime
    /\ cb_event = "reject"
    /\ state = "OPEN"
    /\ now - reopened_at = timeout - 1

\* ---------------------------------------------------- claims: RateLimiter

\* C5: no more than max_per_minute calls are admitted within any window of
\* 60 seconds: max_per_minute + 1 admissions in a row always span a minute.
C5_AtMostMaxPerWindow ==
    Len(admitted) = max_per_minute + 1
        => admitted[max_per_minute + 1] - admitted[1] >= window

\* C6: a check_and_wait() whose quota query fails still admits the call.
C6_QuotaFailureStillAdmits ==
    quota_query = "failed" => gov_result = "admitted"

\* ------------------------------------------ claims: checkpoint and resume

\* The run follows an earlier run that had checkpointing enabled, and was
\* started with --resume.
ResumedAfter(ends) ==
    rerun /\ mode = "resume" /\ prev_enabled /\ prev_end \in ends

\* C7: every identifier of the scanned set, in memory and in the file, is a
\* repository whose guarded scan returned; one whose scan raised, was
\* rejected by the breaker or was in flight at the interruption is not in it
\* unless a scan of it returned at another time.
C7_CheckpointSubsetOfCompleted ==
    /\ Range(scanned_repos) \subseteq completed
    /\ Range(Persisted(file)) \subseteq completed
    /\ Range(repo_details) \subseteq completed

\* C7 witness: the run was interrupted with a repository in flight, after
\* one scan had raised and another had returned and been written.
C7_Witness ==
    /\ pc = "exited"
    /\ inflight # "none"
    /\ inflight \notin completed
    /\ stats.errors > 0
    /\ Len(Persisted(file)) > 0

\* C8: the checkpoint is written after each completed scan and
\* before the next scan begins, so a run resumed after a crash re-attempts no
\* repository whose scan had completed.
C8_CrashLosesOnlyInFlight ==
    /\ (AtRepo /\ enabled) => file = <<scanned_repos>>
    /\ ResumedAfter({"dead"}) => attempted \cap completed_before = {}

\* C9: when a run resumed after an interruption is over, its records cover
\* every repository completed before the interruption.
C9_ResumedResultsCoverEarlier ==
    (pc = "done" /\ ResumedAfter({"exited"}))
        => completed_before \subseteq Range(repo_details)

\* C10: when an interrupt arrives during scanning, in every run mode
\* (default, --resume, --fresh) the checkpoint is written before the process
\* exits, and the file then holds exactly the repositories completed so far:
\* the identifiers loaded at start and those whose scan this run completed
\* and recorded, without the repository in flight. (A write that the file
\* system refused is left aside: the flush is best-effort.)
C10_InterruptFlushesInEveryMode ==
    (pc = "exited" /\ written \notin {"unopened", "cut"})
        => ( /\ written = "ok"
             /\ file = <<scanned_repos>>
             /\ Range(scanned_repos) \ loaded
                    \subseteq (attempted \cap completed) \ {inflight}
             /\ Range(repo_details) \ {inflight} \subseteq Range(scanned_repos)
             /\ inflight \notin Range(scanned_repos) )

\* C11: in one run the guarded scan is invoked at most once for a
\* repository, and never for one that is in the checkpoint (loaded at start
\* or marked by this run).
C11_AttemptedOncePerRun ==
    [][ (pc = "scanning" /\ cb_pc = "idle" /\ cb_pc' = "in_call")
            => ( /\ Population[idx] \notin attempted
                 /\ Population[idx] \notin loaded
                 /\ ~IsScanned(scanned_repos, Population[idx])
                 /\ attempted' = attempted \cup {Population[idx]} ) ]_vars

\* C11 witness: a resumed run has skipped a repository of the checkpoint
\* and is inside its second guarded scan.
C11_Witness ==
    /\ rerun /\ mode = "resume" /\ loaded # {}
    /\ pc = "scanning" /\ cb_pc = "in_call"
    /\ skipped_known > 0
    /\ Cardinality(attempted) = 2

\* C12: after a completed run whose checkpoint was written, the file holds
\* as many identifiers as the run scanned plus those it skipped because
\* they were in the checkpoint, and no more than the population.
C12_CountIsScannedPlusSkipped ==
    (pc = "done" /\ enabled /\ written = "ok")
        => ( /\ Len(Persisted(file)) = stats.repos_scanned + skipped_known
             /\ Len(Persisted(file)) <= Len(Population) )

\* The breaker is about to reject the guarded scan of the repository the
\* loop is at.
AtRejection ==
    /\ AtRepo
    /\ ~IsScanned(scanned_repos, Population[idx])
    /\ ~ShouldSkipRepo(Population[idx])
    /\ Rejects(state, now, last_failure_time)

\* C13: when the guarded call raises (the scan raised, or the open breaker
\* rejected the call) the error counter goes up by one, nothing is added to
\* the records or to the checkpoint, and the loop moves to the next
\* repository.
C13_FailureIsCountedAndSkipped ==
    [][ ( \/ pc = "scanning" /\ cb_pc = "in_call" /\ cb_event' = "raise"
          \/ AtRejection /\ pc' = pc /\ now' = now /\ listed' = listed )
            => ( /\ stats' = [stats EXCEPT !.errors = @ + 1]
                 /\ repo_details' = repo_details
                 /\ scanned_repos' = scanned_repos
                 /\ file' = file
                 /\ Population[idx] \notin Range(scanned_repos')
                 /\ pc' = "scanning"
                 /\ cb_pc' = "idle"
                 /\ idx' = idx + 1 ) ]_vars

\* C13 witness: the scans of failure_threshold repositories raised, the
\* breaker rejected the next one, and the loop is at the repository after it.
C13_Witness ==
    /\ pc = "scanning"
    /\ cb_event = "reject"
    /\ state = "OPEN"
    /\ stats.errors = failure_threshold + 1
    /\ idx = failure_threshold + 2
    /\ idx <= Len(Population)

\* ------------------------------------------------- claims: classification

\* C14: a malformed payload of the Oracle is asked for again, in the
\* classifier and in the duplicate detection of the filter, before the
\* fallback is substituted.
C14_MalformedIsAskedAgain ==
    /\ (cls_pc = "asked" /\ reply = "malformed") => asks > 1
    /\ (cls_pc = "curated" /\ dup_reply = "malformed") => dup_asks > 1

\* C15: every decision has a quadrant in 0..3 and a ring in 0..3.
C15_QuadrantAndRingInRange ==
    decision # << >>
        => decision[1].quadrant \in 0..3 /\ decision[1].ring \in 0..3

\* The tests of the domain-dominance override, as the specification states
\* them, on by_domain of the technology.
AnyDomainAdopt ==
    \E i \in 1..Len(temporal_data.by_domain) :
        LET m == temporal_data.by_domain[i]
        IN  \/ m.total_repos >= 70 /\ m.activity_score >= 400
            \/ m.total_repos >= 50 /\ m.activity_score >= 500

AnyDomainTrial ==
    \E i \in 1..Len(temporal_data.by_domain) :
        LET m == temporal_data.by_domain[i]
        IN  m.total_repos >= 30 /\ m.activity_score >= 650

\* C16: a domain that qualifies for Adopt gives Adopt with confidence 0.9
\* wherever it stands in the breakdown; Trial with confidence 0.8 is given
\* only when no domain qualifies for Adopt and one qualifies for Trial.
C16_DomainOverrideAnyOrder ==
    cls_pc = "ring"
        => ( /\ AnyDomainAdopt => ring = <<0, 900>>
             /\ (~AnyDomainAdopt /\ AnyDomainTrial) => ring = <<1, 800>> )

\* C17: without a qualifying domain the ring is the first match of: Adopt
\* 0.9, Trial 0.8, Hold 0.85, else Assess 0.6, on the stated thresholds.
C17_GlobalRingFirstMatch ==
    (cls_pc = "ring" /\ ~AnyDomainAdopt /\ ~AnyDomainTrial)
        => LET u == usage_score
               a == temporal_data.activity_score
               r == temporal_data.recency_score
               t == temporal_data.trend
               adopt == \/ AtLeast(u, 400) /\ a >= 500
                        \/ AtLeast(u, 350) /\ a >= 600
               trial == (r >= 200 /\ a >= 600 /\ t = "GROWING")
                        \/ (AtLeast(u, 250) /\ a >= 750)
               hold == (Below(u, 100) /\ a < 300) \/ t = "ABANDONED"
           IN  /\ adopt => ring = <<0, 900>>
               /\ (~adopt /\ trial) => ring = <<1, 800>>
               /\ (~adopt /\ ~trial /\ hold) => ring = <<3, 850>>
               /\ (~adopt /\ ~trial /\ ~hold) => ring = <<2, 600>>

\* C17 witness: a breakdown in which no domain qualifies, and the global
\* metrics give Hold.
C17_Witness ==
    /\ cls_pc = "ring"
    /\ temporal_data.by_domain # << >>
    /\ ~AnyDomainAdopt /\ ~AnyDomainTrial
    /\ ring = <<3, 850>>

\* The decision at activity 0.9 without a breakdown, for another usage.
RingAtUsage(u) ==
    SmartRingDecision(u, temporal_data.recency_score, 900,
                      temporal_data.trend, << >>)[1]

HighActivityNoDomain ==
    /\ cls_pc = "ring"
    /\ temporal_data.activity_score = 900
    /\ temporal_data.by_domain = << >>

\* C18 (as stated): at activity 0.9 the ring never gets worse when the usage
\* grows, and is Hold at usage 0.05, Assess at 0.3 and Adopt at 0.4.
C18_HoldAssessAdopt ==
    HighActivityNoDomain
        => ( /\ \A u \in UsageGrid :
                    u[1] >= usage_score[1] => RingAtUsage(u) <= ring[1]
             /\ usage_score = Thousandths(50) => ring[1] = 3
             /\ usage_score = Thousandths(300) => ring[1] = 2
             /\ usage_score = Thousandths(400) => ring[1] = 0 )

\* C18 (amended): at activity 0.9 the ring never gets worse when the usage
\* grows (0 = Adopt ... 3 = Hold); it is Adopt at usage 0.4 and Trial at
\* usage 0.3; at usage 0.05 it is Trial for a GROWING trend with recency at
\* least 0.2, else Hold for an ABANDONED trend, else Assess.
C18_MonotonicTrialAtMedium ==
    HighActivityNoDomain
        => ( /\ \A u \in UsageGrid :
                    u[1] >= usage_score[1] => RingAtUsage(u) <= ring[1]
             /\ usage_score = Thousandths(400) => ring = <<0, 900>>
             /\ usage_score = Thousandths(300) => ring = <<1, 800>>
             /\ usage_score = Thousandths(50)
                => ring = ( IF /\ temporal_data.trend = "GROWING"
                               /\ temporal_data.recency_score >= 200
                            THEN <<1, 800>>
                            ELSE IF temporal_data.trend = "ABANDONED"
                                 THEN <<3, 850>>
                                 ELSE <<2, 600>> ) )

\* C18 witness: usage 0.3 at activity 0.9 and a STABLE trend was decided as
\* Trial.
C18_Witness ==
    /\ HighActivityNoDomain
    /\ usage_score = Thousandths(300)
    /\ temporal_data.trend = "STABLE"
    /\ ring = <<1, 800>>

\* The end-to-end scenario: 10 repositories scanned, 6 of them use the
\* technology, all 6 recent and active.
Scenario ==
    /\ total = 10
    /\ count = 6
    /\ temporal_data \in {AnalyzeTechnology(6, 6, 0, 6, 6, k) : k \in BOOLEAN}

ScenarioScores ==
    /\ usage_score = UsageScore(6, 10)
    /\ temporal_data.activity_score = 1000
    /\ temporal_data.recency_score >= 500
    /\ temporal_data.trend = "GROWING"

\* C19 (as stated): in the scenario every decision, whatever the Oracle
\* answered, has ring Adopt, confidence at least 0.8 and needs no review.
C19_ScenarioAnyOracle ==
    (Scenario /\ cls_pc = "decided")
        => ( /\ ScenarioScores
             /\ decision[1].ring = 0
             /\ decision[1].confidence >= 800
             /\ ~decision[1].needs_review )

\* C19 (amended): in the scenario every decision has ring Adopt; with the
\* label read without regard to case, its
\* confidence is 0.84 for the label high, 0.78 for medium or no label, 0.76
\* for an unknown label and 0.72 for low, which is also what the fallback
\* after a failed or unparsable answer gives; it needs review exactly when
\* the confidence is 0.72, and is at least 0.8 exactly for the label high.
C19_ScenarioByLabel ==
    (Scenario /\ cls_pc = "decided")
        => LET d == decision[1]
               label == LabelLower(AiConfidenceStr(ai_result))
           IN  /\ ScenarioScores
               /\ ring = <<0, 900>>
               /\ d.ring = 0
               /\ reply \in {"malformed", "error"} => label = "low"
               /\ d.confidence = ( CASE label = "high" -> 840
                                     [] label = "medium" -> 780
                                     [] label = "low" -> 720
                                     [] OTHER -> 760 )
               /\ d.needs_review = (label = "low")
               /\ d.list = (IF label = "low" THEN "needs_review"
                            ELSE "high_confidence")

\* C19 witness: in the scenario the Oracle's answer did not parse and the
\* decision made with the fallback needs review.
C19_Witness ==
    /\ Scenario /\ cls_pc = "decided"
    /\ reply = "malformed"
    /\ decision[1].confidence = 720
    /\ decision[1].needs_review

\* C20: the confidence of every decision is within [0, 1] and is the
\* weighted sum 0.4 * (k / 4) + 0.4 * base + 0.2 * label of a number k of
\* strong signals, the base confidence of the ring and the confidence of
\* the Oracle's label.
C20_ConfidenceInUnitInterval ==
    decision # << >>
        => ( /\ decision[1].confidence \in 0..1000
             /\ \E k \in 0..4, ai \in {900, 600, 300, 500} :
                   /\ ring[2] \in {900, 800, 850, 600}
                   /\ 10 * decision[1].confidence
                          = 1000 * k + 4 * ring[2] + 2 * ai )

\* C20 witness: all four signals are strong, the ring is Adopt and the label
\* is high: the largest confidence there is, 0.94.
C20_Witness ==
    /\ cls_pc = "decided"
    /\ StrongSignals(usage_score, temporal_data.activity_score,
                     temporal_data) = 4
    /\ ring = <<0, 900>>
    /\ ai_result.ai_confidence = "high"
    /\ decision[1].confidence = 940

\* C21: a decision needs review exactly when its confidence is below 0.75,
\* or the trend is DECLINING with usage above 0.3, or the trend is GROWING
\* with usage below 0.1, or fewer than 3 repositories use the technology;
\* the reason is that of the first of these that holds, in this order, and
\* there is no reason exactly when no review is needed.
C21_ReviewNeedAndReason ==
    decision # << >>
        => LET d == decision[1]
               low == d.confidence < 750
               declining == temporal_data.trend = "DECLINING"
                            /\ Above(usage_score, 300)
               growing == temporal_data.trend = "GROWING"
                          /\ Below(usage_score, 100)
               limited == temporal_data.total_repos < 3
           IN  /\ d.needs_review = (low \/ declining \/ growing \/ limited)
               /\ (d.review_reason = "None") = ~d.needs_review
               /\ low => d.review_reason = "Low confidence classification"
               /\ (~low /\ declining)
                     => d.review_reason = "High usage but declining trend"
               /\ (~low /\ ~declining /\ growing)
                     => d.review_reason = "Low usage but growing trend"
               /\ (~low /\ ~declining /\ ~growing /\ limited)
                     => d.review_reason = "Limited data (fewer than 3 repos)"

\* The second condition decides: a confident decision for a declining
\* technology used in most repositories.
C21_DecliningDecides ==
    /\ cls_pc = "decided"
    /\ decision[1].confidence >= 750
    /\ temporal_data.trend = "DECLINING" /\ Above(usage_score, 300)
    /\ decision[1].review_reason = "High usage but declining trend"

\* No condition holds: no review, no reason.
C21_NoReview ==
    /\ cls_pc = "decided"
    /\ ~decision[1].needs_review
    /\ decision[1].review_reason = "None"

\* C21 witness: a confident decision for a growing technology that fewer
\* than 3 repositories use, less than a tenth of them: two conditions hold
\* and the reason given is that of the earlier one.
C21_Witness ==
    /\ cls_pc = "decided"
    /\ decision[1].confidence >= 750
    /\ temporal_data.trend = "GROWING" /\ Below(usage_score, 100)
    /\ temporal_data.total_repos < 3
    /\ decision[1].needs_review
    /\ decision[1].review_reason = "Low usage but growing trend"

\* ------------------------------------------------ claims: trend, recency

Counts(recent, new, legacy, active, t) ==
    [recent |-> recent, new |-> new, legacy |-> legacy, active |-> active,
     total |-> t]

\* C22: _determine_trend returns NONE when total = 0 and otherwise, by first
\* match: GROWING if recent/total > 0.5 or (new/total > 0.6 and active/total
\* > 0.7); else ABANDONED if legacy/total > 0.7 and active/total < 0.3; else
\* DECLINING if recent = 0 and new/total < 0.3 and active/total < 0.5; else
\* STABLE. (6,6,0,6,10) gives GROWING, (0,0,9,1,10) ABANDONED and
\* (0,2,3,3,10) DECLINING.
C22_TrendFirstMatch ==
    ta_pc # "counted"
        => LET c == ta_counts
               growing == \/ 2 * c.recent > c.total
                          \/ /\ 10 * c.new > 6 * c.total
                             /\ 10 * c.active > 7 * c.total
               abandoned == /\ 10 * c.legacy > 7 * c.total
                            /\ 10 * c.active < 3 * c.total
               declining == /\ c.recent = 0
                            /\ 10 * c.new < 3 * c.total
                            /\ 2 * c.active < c.total
           IN  /\ (ta_trend = "NONE") = (c.total = 0)
               /\ c.total > 0
                    => /\ (ta_trend = "GROWING") = growing
                       /\ (ta_trend = "ABANDONED") = (~growing /\ abandoned)
                       /\ (ta_trend = "DECLINING")
                            = (~growing /\ ~abandoned /\ declining)
                       /\ (ta_trend = "STABLE")
                            = (~growing /\ ~abandoned /\ ~declining)
               /\ c = Counts(6, 6, 0, 6, 10) => ta_trend = "GROWING"
               /\ c = Counts(0, 0, 9, 1, 10) => ta_trend = "ABANDONED"
               /\ c = Counts(0, 2, 3, 3, 10) => ta_trend = "DECLINING"

\* C22 witness: the second example, which passes the test of ABANDONED and
\* that of DECLINING, has been given the trend ABANDONED.
C22_Witness ==
    /\ ta_pc = "trend"
    /\ ta_counts = Counts(0, 0, 9, 1, 10)
    /\ ta_trend = "ABANDONED"

\* C28: the recency score (recent * 1.0 + new * 0.5) / total is within
\* [0, 1] for all counts with 0 <= recent <= new <= total and total > 0, and
\* is 0 when total = 0.
C28_RecencyInUnitInterval ==
    ta_pc = "scored"
        => /\ ta_recency \in 0..1000
           /\ ta_counts.total = 0 => ta_recency = 0

\* --------------------------------------------------- claims: curation

\* C23: the strategic filter keeps a technology whose name is allow-listed;
\* else keeps one whose repository count meets the configured minimum; else
\* removes it without asking the Oracle only if its name matches the list
\* of utilities and exactly one repository uses it; otherwise asks the
\* Oracle and keeps it iff the verdict is in the allow-set, and keeps it
\* with confidence low when the call fails. (The filter knows no minimum
\* per domain: the configured minimum is always_include_if_repos_gte.)
C23_StrategicDecisionOrder ==
    cur_pc = "evaluated"
        => \A i \in 1..Len(technologies) :
             LET tech == technologies[i]
                 d == strategic_decisions[tech.name]
                 allowed == tech.name \in AlwaysIncludeNames
                 enough == tech.repos_count >= always_include_min_repos
                 utility == MatchesUtility(tech.name) /\ tech.repos_count = 1
             IN  /\ (allowed \/ enough) => (d.should_include /\ d.asks = 0)
                 /\ (~d.should_include /\ d.asks = 0) => utility
                 /\ (~allowed /\ ~enough /\ ~utility)
                       => /\ d.asks >= 1
                          /\ \/ /\ d.strategic_value \in StrategicValues
                                /\ d.should_include
                                     = (d.strategic_value \in StrategicInclude)
                             \/ /\ d.strategic_value = "absent"
                                /\ d.should_include
                             \/ /\ d.strategic_value = "unknown"
                                /\ d.should_include
                                /\ d.confidence = "low"

\* the names of a merge group: the canonical one and the candidates
Members(group) == {group.canonical_name} \cup Range(group.merge_candidates)

RECURSIVE SumGiven(_)
\* the sum of the counts that the names of a set had in the list given
SumGiven(names) ==
    IF names = {} THEN 0
    ELSE LET name == CHOOSE n \in names : TRUE
         IN  (IF name \in NamesOf(given)
              THEN TechNamed(given, name).repos_count ELSE 0)
             + SumGiven(names \ {name})

\* C24: after apply_filter_decisions, for every accepted merge group, every
\* member other than the canonical one is absent from the result, and the
\* canonical entry carries the sum of the original counts of the canonical
\* and of each merged member, each counted once, with the usage percentage
\* recomputed from that sum.
C24_MergeGroupApplied ==
    (cur_pc = "applied" /\ run = 1)
        => \A i \in 1..Len(merge_groups) :
             LET group == merge_groups[i]
                 canonical == group.canonical_name
             IN  /\ \A name \in Members(group) \ {canonical} :
                       name \notin NamesOf(final_technologies)
                 /\ canonical \in NamesOf(final_technologies)
                 /\ TechNamed(final_technologies, canonical)
                       = Technology(canonical, SumGiven(Members(group)))

\* The Oracle has answered the same question the same way each time.
SameAnswers == \A p \in oracle, q \in oracle : p[1] = q[1] => p[2] = q[2]

\* C25: a second run of the Curation Engine, on the list that the first
\* returned, in which the Oracle has answered every question asked before
\* as it did then, produces no merge group and changes no repository count.
C25_CurationIdempotent ==
    (cur_pc = "applied" /\ run = 2 /\ SameAnswers)
        => /\ merge_groups = << >>
           /\ \A i \in 1..Len(final_technologies) :
                 final_technologies[i]
                     = TechNamed(given, final_technologies[i].name)

\* C30: whenever apply_filter_decisions removes names as merge candidates
\* or as consolidated children, the canonical name or the parent they were
\* folded into is in the list returned.
C30_SurvivorPresent ==
    (cur_pc = "applied" /\ run = 1)
        => /\ \A i \in 1..Len(merge_groups) :
                 (\E name \in Range(merge_groups[i].merge_candidates) :
                      name \in NamesOf(given))
                    => merge_groups[i].canonical_name
                           \in NamesOf(final_technologies)
           /\ \A i \in 1..Len(consolidations) :
                 consolidations[i].parent \in NamesOf(final_technologies)

\* ------------------------------------------------- claims: breaker state

\* C29: between two calls of call() and reset() the breaker is never
\* HALF_OPEN; when it is OPEN the failure counter has reached the threshold
\* and the time of the last failure is recorded; when it is CLOSED the
\* failure counter is below the threshold.
C29_BreakerStateInvariant ==
    cb_pc = "idle"
        => /\ state \in {"CLOSED", "OPEN"}
           /\ state = "OPEN"
                 => /\ failure_count >= failure_threshold
                    /\ last_failure_time # NoTime
           /\ state = "CLOSED" => failure_count < failure_threshold

\* the breaker is OPEN again after a failed trial call
C29_Witness ==
    /\ cb_pc = "idle"
    /\ cb_event = "raise"
    /\ entered_as = "HALF_OPEN"
    /\ state = "OPEN"
    /\ failure_count > failure_threshold

\* ------------------------------------------------- claims: usage index

\* the records of the returned list that reference a name
Referencing(name) ==
    {i \in 1..Len(all_repo_details) :
        name \in Flatten(all_repo_details[i].technologies)}

\* C26: after scan_organizations returns, a name is a key of the usage
\* index iff a record of the returned list references it, and its count is
\* the number of records referencing it: a name in several categories of
\* one repository counts once, names differing in case are distinct keys.
C26_IndexMatchesRecords ==
    ix_pc = "returned"
        => /\ DOMAIN tech_counts
                 = {name \in IndexNames : Referencing(name) # {}}
           /\ \A name \in DOMAIN tech_counts :
                 tech_counts[name] = Cardinality(Referencing(name))

\* ------------------------------------ claims: governor and breaker

\* a step in which check_and_wait ends, admitting or raising
AdmitCallEnds ==
    /\ gov_result \in {"pending", "waiting"}
    /\ gov_result' \in {"admitted", "raised"}

\* C27: for every admitted repository check_and_wait is called and returns
\* before circuit_breaker.call is entered, so that a failure raised inside
\* check_and_wait is never recorded as a failure of the breaker.
C27_AdmitBeforeGuard ==
    [][AdmitCallEnds => /\ cb_pc = "idle"
                        /\ failure_count' = failure_count]_vars

====
